---------------------------- MODULE Spec2Model ----------------------------
(***************************************************************************)
(* Verification model of the sports-tournament-scheduling repository:      *)
(* the SAT cardinality and lexicographic encoders (sat_encodings.py), the  *)
(* circle-method match tables and the HA / RR encoders (sat_model_ha.py,   *)
(* sat_model_rr.py), the decoders, the imbalance search and the decision   *)
(* mode of solve_sat_instance.py, the schedule validator                   *)
(* (solution_checker.py) and the HA family of the MIP back end             *)
(* (mip_model_ha.py, solve_mip_instance.py).                               *)
(*                                                                         *)
(* Every component is a pure function of its input, so each one gets a     *)
(* small driver: Init draws the input from a bounded set, the actions      *)
(* apply the function the way the code does.  One specification per        *)
(* component (SpecAMK, SpecLex, ...); the variables of the other           *)
(* components stay at their idle value.                                    *)
(*                                                                         *)
(* Indices are 0-based where the Python code is 0-based (bool_vars[i],     *)
(* s[i][j], Home[p][w][t], pos[w][p][k]); team identifiers are 1..n.       *)
(***************************************************************************)
EXTENDS Integers, Sequences, FiniteSets, TLC

VARIABLES
    pc,           \* control point of the driver that is running
    bool_vars,    \* at_most_k: truth values of the input literals (0-based function)
    k,            \* at_most_k: the bound k
    constraints,  \* at_most_k: the returned clause list
    aux,          \* at_most_k: a model of the auxiliaries s[i][j] (set of true <<i, j>>)
    X, Y,         \* lex_less_onehot_seq: the two sequences of one-hot vectors
    lex,          \* lex_less_onehot_seq: truth value of the emitted formula
    n,            \* number of teams of the instance
    w, p,         \* circle tables: the loop counters of build_solver (1-based, as the code)
    Home, Away,   \* circle tables: Home[w][k], Away[w][k] (0-based)
    use_sb,       \* encoders: use_symmetry_breaking_constraints
    optimization, \* RR encoder: optimization
    pos, swap,    \* RR assignment: the true pos[w][p][k] as <<w, p, k>>, the true swap[w][p]
    HomeHA, AwayHA, \* HA assignment: the true Home[p][w][t] / Away[p][w][t] as <<p, w, t>>
    flipped,      \* whether the candidate assignment was perturbed
    grid,         \* decoders: the schedule whose assignment is decoded
    schedule,     \* the decoded schedule, schedule[p][w] = <<home, away>> (lists as sequences)
    solution,     \* solution_checker: the argument of check_solution (lists as sequences)
    result,       \* solution_checker: the value check_solution returned
    models,       \* optimise_rr: the models <<pos, swap>> of base_assertions
    lo, hi, mid,  \* optimise_rr: the interval of the binary search and its midpoint
    best_val,     \* optimise_rr: best_val, -1 for None
    best_model,   \* optimise_rr: best_model as <<pos, swap>>, <<>> for None
    conclusive,   \* optimise_rr: whether every check so far answered sat or unsat
    checks,       \* optimise_rr: the number of calls of s.check() so far
    model,        \* solve_sat_instance: the argument model, lower-cased
    timeout,      \* solve_sat_instance: the argument timeout, in seconds
    answer,       \* solve_sat_instance: what solve_limited returned (True, False, None)
    record,       \* solve_sat_instance, solve_mip_instance: the returned result record
    status,       \* solve_mip_instance: model.status after model.solve
    HomeVal, AwayVal, \* MIP HA model: the dicts Home, Away, key (p, w) -> value of the variable
    parsed,       \* solve_mip_instance: what _parse_mip_solution returned
    builder,      \* model builders: the class whose build_solver / build_model runs
    dims,         \* model builders: the locals W and P, <<>> before they are assigned
    made,         \* model builders: the objects created so far, in order of creation
    driver,       \* batch drivers: which of solve_sat_all, solve_smt_all, solve_cp_all runs
    instances,    \* batch drivers: the ids of the instance files in the instances directory
    instance_files, \* batch drivers: the sorted list of instance files still to be processed
    instance_id,  \* batch drivers: the id of the instance being processed
    prev_instance_data, \* batch drivers: the loaded results of instance_id - 1, <<"None">> for None
    exp_idx,      \* batch drivers: how many experiments of the instance are done
    res,          \* batch drivers: the result directory, id -> experiment -> record
    started       \* batch drivers: the <<id, experiment>> whose solver subprocess was started

amkVars == <<bool_vars, k, constraints, aux>>
lexVars == <<X, Y, lex>>
circleVars == <<n, w, p, Home, Away>>
satVars == <<use_sb, optimization, grid, pos, swap, HomeHA, AwayHA, flipped, schedule>>

chkVars == <<solution, result>>
optVars == <<models, lo, hi, mid, best_val, best_model, conclusive, checks>>
solveVars == <<model, timeout, answer, record>>
mipVars == <<status, HomeVal, AwayVal, parsed>>
buildVars == <<builder, dims, made>>
batchVars == <<driver, instances, instance_files, instance_id, prev_instance_data, exp_idx, res, started>>

vars == <<pc, amkVars, lexVars, circleVars, satVars, chkVars, optVars, solveVars, mipVars,
          buildVars, batchVars>>

(***************************************************************************)
(* Bounds of the exploration.                                              *)
(***************************************************************************)
\* at_most_k is explored for 0..MaxVars input literals
MaxVars == 3
\* lex_less_onehot_seq is explored for sequences of 0..MaxLen one-hot vectors
MaxLen == 3
\* ... each of width 1..MaxWidth
MaxWidth == 3
\* the circle tables are built for every n in 0..MaxCircleN
MaxCircleN == 12
\* the encoders are built for every n in 0..MaxTeams
MaxTeams == 6
\* the optimisation decoder is explored with up to MaxSwaps true swap variables
MaxSwaps == 1
\* the decoders are explored with up to MaxDrops true variables made false
MaxDrops == 1
\* solve_sat_instance is explored with a timeout of 1..MaxTimeout seconds
MaxTimeout == 2
\* the batch drivers run over MaxInstances instance files with consecutive ids
MaxInstances == 3
\* the first id of the instance files is in 0..MaxFirstId, or LexFirstId, for
\* which the sorted order of the file names is not the order of the ids
MaxFirstId == 2
LexFirstId == 9
\* the weekly home literals and the decision builds are explored on every
\* assignment for n <= MaxFullTeams
MaxFullTeams == 4
\* the loop of optimise_rr is explored for every n in 0..MaxSearchTeams
MaxSearchTeams == 16
\* the per-team bounds of optimise_rr are explored for every even n in 2..MaxBoundTeams
MaxBoundTeams == 8

(***************************************************************************)
(* Generic helpers.                                                        *)
(***************************************************************************)
Range(f) == {f[x] : x \in DOMAIN f}

\* number of TRUE entries of a boolean function
RECURSIVE CountSet(_, _)
CountSet(f, D) ==
    IF D = {} THEN 0
    ELSE LET x == CHOOSE y \in D : TRUE
         IN (IF f[x] THEN 1 ELSE 0) + CountSet(f, D \ {x})

CountTrue(f) == CountSet(f, DOMAIN f)

\* a Python list of length len as a function on 0..len-1
List0(len) == 0 .. (len - 1)

(***************************************************************************)
(* sat_encodings.py: at_least_one, at_most_one, exactly_one.               *)
(* bs is the list of truth values the literals take under an assignment;   *)
(* the operators give the truth value of the emitted formula.              *)
(***************************************************************************)
at_least_one(bs) == \E i \in DOMAIN bs : bs[i]

at_most_one(bs) ==
    \A i \in DOMAIN bs : \A j \in DOMAIN bs : i < j => (~bs[i] \/ ~bs[j])

exactly_one(bs) == at_least_one(bs) /\ at_most_one(bs)

(***************************************************************************)
(* sat_encodings.py: at_most_k, the sequential counter.                    *)
(* A literal is <<variable, sign>>; a variable is <<"b", i, 0>> for        *)
(* bool_vars[i] or <<"s", i, j>> for the auxiliary s[i][j]; a clause is    *)
(* the set of its literals (a z3 Or); the result is the list of clauses    *)
(* in the order the code appends them.                                     *)
(***************************************************************************)
BVar(i) == <<"b", i, 0>>
SVar(i, j) == <<"s", i, j>>
Lit(v) == <<v, TRUE>>
Not(v) == <<v, FALSE>>

\* lines 46-48: base for i = 0
AMKBase(kk) ==
    <<{Not(BVar(0)), Lit(SVar(0, 0))}>>
    \o [j \in 1 .. (kk - 1) |-> {Not(SVar(0, j))}]

\* lines 55-58: the inner loop over j = 1..k-1 for one i
RECURSIVE AMKInner(_, _, _)
AMKInner(i, j, kk) ==
    IF j > kk - 1 THEN <<>>
    ELSE << {Not(BVar(i)), Not(SVar(i - 1, j - 1)), Lit(SVar(i, j))},
            {Not(SVar(i - 1, j)), Lit(SVar(i, j))} >>
         \o AMKInner(i, j + 1, kk)

\* lines 52-58: the clauses of one transition step i
AMKStepOverflow(i, kk) == {Not(BVar(i)), Not(SVar(i - 1, kk - 1))}

AMKStep(i, kk) ==
    << {Not(BVar(i)), Lit(SVar(i, 0))},
       {Not(SVar(i - 1, 0)), Lit(SVar(i, 0))},
       AMKStepOverflow(i, kk) >>
    \o AMKInner(i, 1, kk)

\* lines 51-58: transitions for i = 1..n-2
RECURSIVE AMKTransitions(_, _, _)
AMKTransitions(i, nv, kk) ==
    IF i > nv - 2 THEN <<>>
    ELSE AMKStep(i, kk) \o AMKTransitions(i + 1, nv, kk)

\* a variant of AMKFinal: without the final guard
AMKFinal_mut(nv, kk) == <<>>

\* line 61: final guard on the last variable
AMKFinal(nv, kk) == <<{Not(BVar(nv - 1)), Not(SVar(nv - 2, kk - 1))}>>

\* a variant of at_most_k: the bound 0 is handed to the sequential counter
at_most_k_mut(nv, kk) ==
    IF nv = 0 THEN <<>>
    ELSE IF kk < 0 THEN [i \in 1 .. nv |-> {Not(BVar(i - 1))}]
    ELSE IF kk >= nv THEN <<>>
    ELSE AMKBase(kk) \o AMKTransitions(1, nv, kk) \o AMKFinal(nv, kk)

\* lines 24-63; nv = len(bool_vars)
at_most_k(nv, kk) ==
    IF nv = 0 THEN <<>>
    ELSE IF kk <= 0 THEN [i \in 1 .. nv |-> {Not(BVar(i - 1))}]
    ELSE IF kk >= nv THEN <<>>
    ELSE AMKBase(kk) \o AMKTransitions(1, nv, kk) \o AMKFinal(nv, kk)

\* line 43: the auxiliaries created, s[i][j] for i = 0..n-2, j = 0..k-1
AuxVars(nv, kk) ==
    IF nv = 0 \/ kk <= 0 \/ kk >= nv THEN {}
    ELSE (0 .. (nv - 2)) \X (0 .. (kk - 1))

(***************************************************************************)
(* Truth of a clause list under an assignment: bv gives bool_vars, sT is   *)
(* the set of auxiliaries <<i, j>> that are true.                          *)
(***************************************************************************)
LitHolds(l, bv, sT) ==
    LET v == l[1]
        val == IF v[1] = "b" THEN bv[v[2]] ELSE <<v[2], v[3]>> \in sT
    IN val = l[2]

ClauseHolds(c, bv, sT) == \E l \in c : LitHolds(l, bv, sT)

AllHold(cls, bv, sT) == \A x \in DOMAIN cls : ClauseHolds(cls[x], bv, sT)

\* some assignment to the auxiliaries satisfies every clause (brute force)
Extendable(cls, bv, nv, kk) ==
    \E sT \in SUBSET AuxVars(nv, kk) : AllHold(cls, bv, sT)

(***************************************************************************)
(* The same existential, eliminated row by row.  Every clause mentions     *)
(* the auxiliaries of at most two consecutive rows i-1 and i, so           *)
(*   \E s[0..n-2] : C0(s0) /\ C1(s0,s1) /\ ...                             *)
(* is computed by carrying the set of rows s[i] that some s[0..i-1]        *)
(* supports.  Used where the brute force over 2^((n-1)k) assignments is    *)
(* out of reach; ChainAgrees compares the two.                             *)
(***************************************************************************)
ClauseRow(c) ==
    LET rows == {l[1][2] : l \in {m \in c : m[1][1] = "s"}}
    IN IF rows = {} THEN 0 ELSE CHOOSE r \in rows : \A q \in rows : q <= r

RowHolds(c, bv, i, prev, cur) ==
    ClauseHolds(c, bv, {<<i - 1, j>> : j \in prev} \cup {<<i, j>> : j \in cur})

\* (\E x \in {e} : ... binds x to the value of e, computed once.)
RECURSIVE ChainFrom(_, _, _, _, _, _)
ChainFrom(cls, bv, i, last, kk, feas) ==
    IF i > last THEN feas # {}
    ELSE \E C \in {{cls[x] : x \in {y \in DOMAIN cls : ClauseRow(cls[y]) = i}}} :
         \E next \in {{r \in {x : x \in SUBSET (0 .. (kk - 1))} :
                         \E rp \in feas : \A c \in C : RowHolds(c, bv, i, rp, r)}} :
            ChainFrom(cls, bv, i + 1, last, kk, next)

ChainExtendable(cls, bv, nv, kk) ==
    IF AuxVars(nv, kk) = {} THEN AllHold(cls, bv, {})
    ELSE ChainFrom(cls, bv, 0, nv - 2, kk, {{}})

\* at_most_k(vals, k) can be satisfied with the literals valued as in vals
AMKSat(vals, kk) ==
    \E v \in {vals} : \E nv \in {Cardinality(DOMAIN v)} :
        \E cls \in {at_most_k(nv, kk)} : ChainExtendable(cls, v, nv, kk)

(***************************************************************************)
(* Driver of at_most_k: pick the literals' values and k, build the         *)
(* clauses, let a solver pick a model of the auxiliaries.                  *)
(***************************************************************************)
IdleAMK ==
    /\ bool_vars = <<>>
    /\ k = 0
    /\ constraints = <<>>
    /\ aux = {}

IdleLex ==
    /\ X = <<>>
    /\ Y = <<>>
    /\ lex = FALSE

IdleCircle ==
    /\ n = 0
    /\ w = 0
    /\ p = 0
    /\ Home = <<>>
    /\ Away = <<>>

IdleSat ==
    /\ use_sb = FALSE
    /\ optimization = FALSE
    /\ pos = {}
    /\ swap = {}
    /\ HomeHA = {}
    /\ AwayHA = {}
    /\ flipped = FALSE
    /\ grid = <<>>
    /\ schedule = <<>>

IdleChk ==
    /\ solution = <<>>
    /\ result = <<>>

IdleOpt ==
    /\ models = {}
    /\ lo = 0
    /\ hi = 0
    /\ mid = 0
    /\ best_val = 0 - 1
    /\ best_model = <<>>
    /\ conclusive = TRUE
    /\ checks = 0

IdleSolve ==
    /\ model = ""
    /\ timeout = 0
    /\ answer = "not asked"
    /\ record = <<>>

IdleBuild ==
    /\ builder = ""
    /\ dims = <<>>
    /\ made = <<>>

IdleBatch ==
    /\ driver = ""
    /\ instances = {}
    /\ instance_files = <<>>
    /\ instance_id = 0
    /\ prev_instance_data = <<"None">>
    /\ exp_idx = 0
    /\ res = <<>>
    /\ started = {}

IdleMip ==
    /\ status = "not built"
    /\ HomeVal = <<>>
    /\ AwayVal = <<>>
    /\ parsed = <<>>

InitAMK ==
    /\ pc = "amk_call"
    /\ \E nv \in 0 .. MaxVars : bool_vars \in [List0(nv) -> BOOLEAN]
    /\ k \in (-1) .. (MaxVars + 1)
    /\ constraints = <<>>
    /\ aux = {}
    /\ IdleLex /\ IdleCircle /\ IdleSat /\ IdleChk /\ IdleOpt /\ IdleBuild /\ IdleBatch /\ IdleMip /\ IdleSolve

Encode ==
    /\ pc = "amk_call"
    /\ constraints' = at_most_k(Cardinality(DOMAIN bool_vars), k)
    /\ pc' = "amk_encoded"
    /\ UNCHANGED <<batchVars, buildVars, mipVars, solveVars, chkVars, optVars, bool_vars, k, aux, lexVars, circleVars, satVars>>

\* the solver returns any model of the clauses that agrees with bool_vars
SolveAMK ==
    /\ pc = "amk_encoded"
    /\ \E sT \in SUBSET AuxVars(Cardinality(DOMAIN bool_vars), k) :
          /\ AllHold(constraints, bool_vars, sT)
          /\ aux' = sT
    /\ pc' = "amk_model"
    /\ UNCHANGED <<batchVars, buildVars, mipVars, solveVars, chkVars, optVars, bool_vars, k, constraints, lexVars, circleVars, satVars>>

NextAMK == Encode \/ SolveAMK

SpecAMK == InitAMK /\ [][NextAMK]_vars

\* C6: for 1 <= k < |vars| the clauses of at_most_k are sound (a model of the
\* clauses has at most k true input literals) and complete (every valuation of
\* the inputs with at most k true extends to the auxiliaries); three true inputs
\* with k = 1 cannot be satisfied.
C6_AtMostKSoundComplete ==
    LET nv == Cardinality(DOMAIN bool_vars)
    IN (1 <= k /\ k < nv) =>
         /\ pc = "amk_model" => CountTrue(bool_vars) <= k
         /\ pc = "amk_encoded" =>
              /\ Extendable(constraints, bool_vars, nv, k)
                   <=> (CountTrue(bool_vars) <= k)
              /\ (nv = 3 /\ k = 1 /\ CountTrue(bool_vars) = 3)
                   => ~Extendable(constraints, bool_vars, nv, k)

\* a model of a real counter: three literals, two of them true, k = 2
C6_Witness ==
    /\ pc = "amk_model"
    /\ Cardinality(DOMAIN bool_vars) = 3
    /\ k = 2
    /\ CountTrue(bool_vars) = 2

\* the row-by-row elimination decides the same existential as the brute force
ChainAgrees ==
    pc = "amk_encoded" =>
        LET nv == Cardinality(DOMAIN bool_vars)
        IN Extendable(constraints, bool_vars, nv, k)
             <=> ChainExtendable(constraints, bool_vars, nv, k)

\* C16: at_most_k fails with a domain error when called with an empty
\* variable list and k < 0; it does not return a constraint list then.
C16_EmptyNegativeIsDomainError ==
    (pc # "amk_call" /\ Cardinality(DOMAIN bool_vars) = 0 /\ k < 0) => pc = "domain_error"

\* the variables a clause list mentions
Mentioned(cs) == {l[1] : l \in UNION {cs[i] : i \in DOMAIN cs}}

\* C22: at_most_k returns an empty clause list whenever k >= |vars|, and for
\* k <= 0 with |vars| >= 1 exactly the unit clauses Not(v), one per v of vars
\* in order, which hold exactly when every v is false; in neither case is an
\* auxiliary variable introduced.
C22_AtMostKTrivialBounds ==
    LET nv == Cardinality(DOMAIN bool_vars)
    IN pc # "amk_call" =>
         /\ k >= nv => constraints = <<>>
         /\ (k <= 0 /\ nv >= 1) =>
               /\ Len(constraints) = nv
               /\ \A i \in 1 .. nv : constraints[i] = {<<BVar(i - 1), FALSE>>}
               /\ AllHold(constraints, bool_vars, {}) <=> (CountTrue(bool_vars) = 0)
         /\ (k >= nv \/ k <= 0) =>
               /\ \A v \in Mentioned(constraints) : v[1] = "b"
               /\ pc = "amk_model" => aux = {}

\* three literals, one of them true, bound 0: the unit clauses cannot be met
C22_Witness ==
    /\ pc = "amk_encoded"
    /\ Cardinality(DOMAIN bool_vars) = 3 /\ k = 0
    /\ CountTrue(bool_vars) = 1
    /\ Len(constraints) = 3
    /\ ~AllHold(constraints, bool_vars, {})

(***************************************************************************)
(* sat_encodings.py: the one-hot comparators.  A one-hot vector is the     *)
(* 0-based list of the truth values of its literals.  z3's And() of no     *)
(* argument is true and Or() of no argument is false.                      *)
(***************************************************************************)
\* lines 66-68; zip stops at the shorter list
equal_onehot(x, y) ==
    \A i \in DOMAIN x \cap DOMAIN y : x[i] <=> y[i]

\* a variant of less_onehot_strict: with j >= i in place of j > i
less_onehot_strict_mut(x, y) ==
    \E i \in 0 .. (Cardinality(DOMAIN x) - 2) :
        x[i] /\ \E j \in DOMAIN y : j >= i /\ y[j]

\* lines 70-76: Or_i ( x[i] /\ Or(y[i+1:]) ), i in range(len(x) - 1)
less_onehot_strict(x, y) ==
    \E i \in 0 .. (Cardinality(DOMAIN x) - 2) :
        x[i] /\ \E j \in DOMAIN y : j > i /\ y[j]

\* lines 78-87: Or_k ( prefix_eq(0..k-1) /\ X[k] < Y[k] ), k in range(len(X))
lex_less_onehot_seq(XX, YY) ==
    \E kk \in DOMAIN XX :
        /\ \A i \in 0 .. (kk - 1) : equal_onehot(XX[i], YY[i])
        /\ less_onehot_strict(XX[kk], YY[kk])

\* the one-hot vectors of a width, and the index a one-hot vector selects
OneHots(width) ==
    {[i \in List0(width) |-> i = t] : t \in List0(width)}

Selected(x) == CHOOSE i \in DOMAIN x : x[i]

\* strict lexicographic order of two equal-length integer lists
StrictLexLess(a, b) ==
    \E kk \in DOMAIN a :
        /\ \A i \in 0 .. (kk - 1) : a[i] = b[i]
        /\ a[kk] < b[kk]

Indices(XX) == [i \in DOMAIN XX |-> Selected(XX[i])]

InitLex ==
    /\ pc = "lex_call"
    /\ \E len \in 0 .. MaxLen : \E width \in 1 .. MaxWidth :
          /\ X \in [List0(len) -> OneHots(width)]
          /\ Y \in [List0(len) -> OneHots(width)]
    /\ lex = FALSE
    /\ IdleAMK /\ IdleCircle /\ IdleSat /\ IdleChk /\ IdleOpt /\ IdleBuild /\ IdleBatch /\ IdleMip /\ IdleSolve

Compare ==
    /\ pc = "lex_call"
    /\ lex' = lex_less_onehot_seq(X, Y)
    /\ pc' = "lex_done"
    /\ UNCHANGED <<batchVars, buildVars, mipVars, solveVars, chkVars, optVars, X, Y, amkVars, circleVars, satVars>>

NextLex == Compare

SpecLex == InitLex /\ [][NextLex]_vars

\* C7: on equal-length sequences of one-hot vectors lex_less_onehot_seq(X, Y)
\* is true exactly when the selected indices of X are strictly lexicographically
\* below those of Y; it is false for X = Y and, for X # Y, exactly one of the
\* two directions is true.
C7_LexLessIsStrictLex ==
    pc = "lex_done" =>
        /\ lex <=> StrictLexLess(Indices(X), Indices(Y))
        /\ X = Y => ~lex
        /\ X # Y => (lex <=> ~lex_less_onehot_seq(Y, X))

\* two sequences that agree on a prefix and differ later, compared as smaller
C7_Witness ==
    /\ pc = "lex_done"
    /\ Cardinality(DOMAIN X) = 3
    /\ X[0] = Y[0] /\ X[1] = Y[1] /\ X[2] # Y[2]
    /\ lex

(***************************************************************************)
(* sat_model_rr.py lines 28-45 (the same loop is mip_model_rr.circle_pairs *)
(* and smt_model_rr.py lines 54-61): the circle-method match tables.       *)
(***************************************************************************)
Max(a, b) == IF a >= b THEN a ELSE b
Min(a, b) == IF a <= b THEN a ELSE b

\* line 41, w and p 1-based
home_raw(nn, ww, pp) ==
    IF pp = 1 THEN nn ELSE (((ww - 1) + (pp - 1)) % (nn - 1)) + 1

\* a variant of away_raw: the week offset w in place of w - 1
away_raw_mut(nn, ww, pp) ==
    IF pp = 1 THEN ww ELSE (((nn - 1) - (pp - 1) + ww) % (nn - 1)) + 1

\* line 42
away_raw(nn, ww, pp) ==
    IF pp = 1 THEN ww ELSE (((nn - 1) - (pp - 1) + (ww - 1)) % (nn - 1)) + 1

\* lines 44-45: the canonical orientation, higher-numbered team in Home
HomeEntry(nn, ww, pp) == Max(home_raw(nn, ww, pp), away_raw(nn, ww, pp))
AwayEntry(nn, ww, pp) == Min(home_raw(nn, ww, pp), away_raw(nn, ww, pp))

\* Home[w][k], Away[w][k] of the finished tables, w and k 0-based
HomeAt(nn, ww, kk) == HomeEntry(nn, ww + 1, kk + 1)
AwayAt(nn, ww, kk) == AwayEntry(nn, ww + 1, kk + 1)

\* lines 37-38: [[0] * P for _ in range(W)]
ZeroTable(nn) == [ww \in List0(nn - 1) |-> [kk \in List0(nn \div 2) |-> 0]]

\* the finished tables, as the loop of lines 39-45 leaves them
HomeTable(nn) ==
    [ww \in List0(nn - 1) |-> [kk \in List0(nn \div 2) |-> HomeAt(nn, ww, kk)]]
AwayTable(nn) ==
    [ww \in List0(nn - 1) |-> [kk \in List0(nn \div 2) |-> AwayAt(nn, ww, kk)]]

InitCircle ==
    /\ pc = "circle_call"
    /\ n \in 0 .. MaxCircleN
    /\ w = 0 /\ p = 0
    /\ Home = <<>> /\ Away = <<>>
    /\ IdleAMK /\ IdleLex /\ IdleSat /\ IdleChk /\ IdleOpt /\ IdleBuild /\ IdleBatch /\ IdleMip /\ IdleSolve

\* line 28: assert n % 2 == 0 and n >= 2
CircleAssertFails ==
    /\ pc = "circle_call"
    /\ ~(n % 2 = 0 /\ n >= 2)
    /\ pc' = "assertion_error"
    /\ UNCHANGED <<batchVars, buildVars, mipVars, solveVars, chkVars, optVars, amkVars, lexVars, circleVars, satVars>>

\* lines 29-38: W, P and the zero tables
CircleStart ==
    /\ pc = "circle_call"
    /\ n % 2 = 0 /\ n >= 2
    /\ Home' = ZeroTable(n)
    /\ Away' = ZeroTable(n)
    /\ w' = 1 /\ p' = 1
    /\ pc' = "circle_loop"
    /\ UNCHANGED <<batchVars, buildVars, mipVars, solveVars, chkVars, optVars, n, amkVars, lexVars, satVars>>

\* lines 39-45: one iteration of the inner loop
CircleStep ==
    /\ pc = "circle_loop"
    /\ Home' = [Home EXCEPT ![w - 1][p - 1] = HomeEntry(n, w, p)]
    /\ Away' = [Away EXCEPT ![w - 1][p - 1] = AwayEntry(n, w, p)]
    /\ IF p < n \div 2
         THEN /\ p' = p + 1 /\ w' = w /\ pc' = pc
         ELSE IF w < n - 1
           THEN /\ p' = 1 /\ w' = w + 1 /\ pc' = pc
           ELSE /\ p' = p /\ w' = w /\ pc' = "circle_done"
    /\ UNCHANGED <<batchVars, buildVars, mipVars, solveVars, chkVars, optVars, n, amkVars, lexVars, satVars>>

NextCircle == CircleAssertFails \/ CircleStart \/ CircleStep

SpecCircle == InitCircle /\ [][NextCircle]_vars

\* the teams of week ww of a pair of tables, and the slots holding a pair
WeekTeams(H, A, ww) == [x \in List0(2 * Cardinality(DOMAIN H[ww])) |->
    IF x < Cardinality(DOMAIN H[ww]) THEN H[ww][x]
    ELSE A[ww][x - Cardinality(DOMAIN H[ww])]]

PairSlots(H, A, i, j) ==
    {s \in {<<ww, kk>> : ww \in DOMAIN H, kk \in UNION {DOMAIN H[v] : v \in DOMAIN H}} :
        {H[s[1]][s[2]], A[s[1]][s[2]]} = {i, j}}

\* C5: for even n >= 4 the finished tables hold, in every week, a permutation
\* of 1..n across Home and Away, and every unordered pair of distinct teams in
\* exactly one (week, index).
C5_CircleTables ==
    (pc = "circle_done" /\ n >= 4) =>
        /\ Home = HomeTable(n) /\ Away = AwayTable(n)
        /\ \A ww \in List0(n - 1) :
              /\ Range(WeekTeams(Home, Away, ww)) = 1 .. n
              /\ \A x, y \in DOMAIN WeekTeams(Home, Away, ww) :
                    x # y => WeekTeams(Home, Away, ww)[x] # WeekTeams(Home, Away, ww)[y]
        /\ \A i, j \in 1 .. n :
              i < j => Cardinality(PairSlots(Home, Away, i, j)) = 1

C5_Witness == pc = "circle_done" /\ n = 8 /\ Home[6][3] = 4 /\ Away[6][3] = 3

(***************************************************************************)
(* sat_model_rr.py: SATModelRR.build_solver.  An assignment is the set     *)
(* posT of the variables pos[w][p][k] that are true, as <<w, p, k>>, and   *)
(* the set swapT of the swap[w][p] that are true, as <<w, p>>.  RR...      *)
(* operators give the truth value of the constraints the code adds.        *)
(***************************************************************************)
Weeks(nn) == List0(nn - 1)
Periods(nn) == List0(nn \div 2)

\* a Python list built by a comprehension with a filter: the elements of the
\* 0-based list f whose index satisfies keep, in order, as a 0-based list
RECURSIVE FilterSeq(_, _, _, _)
FilterSeq(f, keep, i, len) ==
    IF i >= len THEN <<>>
    ELSE (IF i \in keep THEN <<f[i]>> ELSE <<>>) \o FilterSeq(f, keep, i + 1, len)

ToList0(sq) == [i \in List0(Len(sq)) |-> sq[i + 1]]

\* lines 66-69: exactly one match index per slot
RROneIndexPerSlot(nn, posT) ==
    \A ww \in Weeks(nn) : \A pp \in Periods(nn) :
        exactly_one([kk \in Periods(nn) |-> <<ww, pp, kk>> \in posT])

\* lines 71-74: per-week permutation of match indices
RRPermutation(nn, posT) ==
    \A ww \in Weeks(nn) : \A kk \in Periods(nn) :
        exactly_one([pp \in Periods(nn) |-> <<ww, pp, kk>> \in posT])

\* lines 79-83: occ for period pp and team t: one Or(*ks) per week with ks # []
RROcc(nn, posT, pp, t) ==
    LET ks(ww) == {kk \in Periods(nn) : HomeAt(nn, ww, kk) = t \/ AwayAt(nn, ww, kk) = t}
        ors == [ww \in Weeks(nn) |-> \E kk \in ks(ww) : <<ww, pp, kk>> \in posT]
    IN ToList0(FilterSeq(ors, {ww \in Weeks(nn) : ks(ww) # {}}, 0, nn - 1))

\* a variant of RRPeriodBound: one more appearance allowed
RRPeriodBound_mut == 2 + 1

\* line 84: the bound of the per-period cardinality constraint
RRPeriodBound == 2

\* a variant of RRAtMostTwice: the loop over the periods stops one period early
RRAtMostTwice_mut(nn, posT) ==
    \A pp \in Periods(nn) \ {(nn \div 2) - 1} : \A t \in 1 .. nn :
        AMKSat(RROcc(nn, posT, pp, t), RRPeriodBound)

\* lines 76-84: each team appears in the same period at most twice
RRAtMostTwice(nn, posT) ==
    \A pp \in Periods(nn) : \A t \in 1 .. nn :
        AMKSat(RROcc(nn, posT, pp, t), RRPeriodBound)

\* sat_encodings.py lines 90-106
team_onehot_from_pos(table, posT, ww, pp, nn, P) ==
    [x \in List0(nn) |->
        \E kk \in {q \in List0(P) : table[ww][q] = x + 1} : <<ww, pp, kk>> \in posT]

\* a variant of RRWeekOneFixed: week 1 fixed to the reversed permutation
RRWeekOneFixed_mut(nn, opt, posT, swapT) ==
    \A pp \in Periods(nn) :
        /\ \A kk \in Periods(nn) : (<<0, pp, kk>> \in posT) <=> (kk = (nn \div 2) - 1 - pp)
        /\ opt => <<0, pp>> \notin swapT

\* lines 88-92: week 1 fixed to the identity permutation, swap[0][p] false
RRWeekOneFixed(nn, opt, posT, swapT) ==
    \A pp \in Periods(nn) :
        /\ \A kk \in Periods(nn) : (<<0, pp, kk>> \in posT) <=> (kk = pp)
        /\ opt => <<0, pp>> \notin swapT

\* lines 96-101: strict lex between consecutive periods
RRLexPeriods(nn, posT) ==
    LET H == HomeTable(nn)
        A == AwayTable(nn)
        W == nn - 1
        P == nn \div 2
        Row(pp) == [x \in List0(2 * W) |->
            IF x < W THEN team_onehot_from_pos(A, posT, x, pp, nn, P)
            ELSE team_onehot_from_pos(H, posT, x - W, pp, nn, P)]
    IN \A pp \in List0(P - 1) : lex_less_onehot_seq(Row(pp), Row(pp + 1))

\* lines 105-110: strict lex between consecutive weeks
RRLexWeeks(nn, posT) ==
    LET H == HomeTable(nn)
        A == AwayTable(nn)
        W == nn - 1
        P == nn \div 2
        Col(ww) == [x \in List0(2 * P) |->
            IF x < P THEN team_onehot_from_pos(A, posT, ww, x, nn, P)
            ELSE team_onehot_from_pos(H, posT, ww, x - P, nn, P)]
    IN \A ww \in List0(W - 1) : lex_less_onehot_seq(Col(ww), Col(ww + 1))

\* lines 66-110: everything solver.add receives
RRHolds(nn, opt, sb, posT, swapT) ==
    /\ RROneIndexPerSlot(nn, posT)
    /\ RRPermutation(nn, posT)
    /\ RRAtMostTwice(nn, posT)
    /\ sb => /\ RRWeekOneFixed(nn, opt, posT, swapT)
             /\ RRLexPeriods(nn, posT)
             /\ RRLexWeeks(nn, posT)

\* a variant of RRHomeLiteral: the swap variable read the same way for both tables
RRHomeLiteral_mut(nn, posT, swapT, t, ww) ==
    LET KA == {kk \in Periods(nn) : HomeAt(nn, ww, kk) = t}
        KB == {kk \in Periods(nn) : AwayAt(nn, ww, kk) = t}
        first(K) == CHOOSE kk \in K : \A q \in K : kk <= q
    IN IF KA # {}
       THEN \E pp \in Periods(nn) :
                <<ww, pp, first(KA)>> \in posT /\ <<ww, pp>> \notin swapT
       ELSE \E pp \in Periods(nn) :
                <<ww, pp, first(KB)>> \in posT /\ <<ww, pp>> \notin swapT

\* lines 115-126: the value of the weekly home literal H[t][w]
RRHomeLiteral(nn, posT, swapT, t, ww) ==
    LET KA == {kk \in Periods(nn) : HomeAt(nn, ww, kk) = t}
        KB == {kk \in Periods(nn) : AwayAt(nn, ww, kk) = t}
        first(K) == CHOOSE kk \in K : \A q \in K : kk <= q
    IN IF KA # {}
       THEN \E pp \in Periods(nn) :
                <<ww, pp, first(KA)>> \in posT /\ <<ww, pp>> \notin swapT
       ELSE \E pp \in Periods(nn) :
                <<ww, pp, first(KB)>> \in posT /\ <<ww, pp>> \in swapT

(***************************************************************************)
(* sat_model_ha.py: SATModelHA.build_solver.  An assignment is the pair    *)
(* of sets HT, AT of the variables Home[p][w][t], Away[p][w][t] that are   *)
(* true, as <<p, w, t>> with t 0-based (team t + 1).                       *)
(***************************************************************************)
\* lines 47-51: one home and one away per slot, and not the same team
HASlot(nn, HT, AT) ==
    \A pp \in Periods(nn) : \A ww \in Weeks(nn) :
        /\ exactly_one([t \in List0(nn) |-> <<pp, ww, t>> \in HT])
        /\ exactly_one([t \in List0(nn) |-> <<pp, ww, t>> \in AT])
        /\ \A i \in List0(nn) : ~(<<pp, ww, i>> \in HT) \/ ~(<<pp, ww, i>> \in AT)

\* lines 52-55: canonical orientation home < away
HAOrientation(nn, HT, AT) ==
    \A pp \in Periods(nn) : \A ww \in Weeks(nn) :
        \A i \in List0(nn) : \A j \in 0 .. i :
            ~(<<pp, ww, i>> \in HT) \/ ~(<<pp, ww, j>> \in AT)

\* lines 60-66: pair_codes of {i, j}, over p in range(P) for w in range(W)
HAPairCodes(nn, HT, AT, i, j) ==
    [x \in List0((nn \div 2) * (nn - 1)) |->
        LET pp == x \div (nn - 1)
            ww == x % (nn - 1)
        IN \/ (<<pp, ww, i>> \in HT /\ <<pp, ww, j>> \in AT)
           \/ (<<pp, ww, j>> \in HT /\ <<pp, ww, i>> \in AT)]

\* lines 57-67: every unordered pair occurs exactly once
HAPairs(nn, HT, AT) ==
    \A i \in List0(nn) : \A j \in List0(nn) :
        i < j => exactly_one(HAPairCodes(nn, HT, AT, i, j))

\* lines 69-74: each team plays exactly once per week
HAWeeks(nn, HT, AT) ==
    \A ww \in Weeks(nn) : \A t \in List0(nn) :
        exactly_one([x \in List0(2 * (nn \div 2)) |->
            IF x < nn \div 2 THEN <<x, ww, t>> \in HT
            ELSE <<x - (nn \div 2), ww, t>> \in AT])

\* a variant of HAPeriodBound: one more appearance allowed
HAPeriodBound_mut == 2 + 1

\* line 81: the bound of the per-period cardinality constraint
HAPeriodBound == 2

\* a variant of HAAtMostTwice: the loop over the teams starts one team late
HAAtMostTwice_mut(nn, HT, AT) ==
    \A pp \in Periods(nn) : \A t \in List0(nn) \ {0} :
        AMKSat([x \in List0(2 * (nn - 1)) |->
                   IF x < nn - 1 THEN <<pp, x, t>> \in HT
                   ELSE <<pp, x - (nn - 1), t>> \in AT],
               HAPeriodBound)

\* lines 76-81: each team appears in the same period at most twice
HAAtMostTwice(nn, HT, AT) ==
    \A pp \in Periods(nn) : \A t \in List0(nn) :
        AMKSat([x \in List0(2 * (nn - 1)) |->
                   IF x < nn - 1 THEN <<pp, x, t>> \in HT
                   ELSE <<pp, x - (nn - 1), t>> \in AT],
               HAPeriodBound)

\* a variant of HAWeekOneFixed: week 1 fixed the other way round, (2,1), (4,3), ...
HAWeekOneFixed_mut(nn, HT, AT) ==
    \A pp \in Periods(nn) : \A t \in List0(nn) :
        /\ (<<pp, 0, t>> \in HT) <=> (t = 2 * pp + 1)
        /\ (<<pp, 0, t>> \in AT) <=> (t = 2 * pp)

\* lines 84-91: week 1 fixed to (1,2), (3,4), ..., (n-1,n)
HAWeekOneFixed(nn, HT, AT) ==
    \A pp \in Periods(nn) : \A t \in List0(nn) :
        /\ (<<pp, 0, t>> \in HT) <=> (t = 2 * pp)
        /\ (<<pp, 0, t>> \in AT) <=> (t = 2 * pp + 1)

HAVec(nn, T, pp, ww) == [t \in List0(nn) |-> <<pp, ww, t>> \in T]

\* lines 95-98: strict lex between consecutive periods
HALexPeriods(nn, HT, AT) ==
    LET W == nn - 1
        Row(pp) == [x \in List0(2 * W) |->
            IF x < W THEN HAVec(nn, AT, pp, x) ELSE HAVec(nn, HT, pp, x - W)]
    IN \A pp \in List0((nn \div 2) - 1) : lex_less_onehot_seq(Row(pp), Row(pp + 1))

\* lines 102-105: strict lex between consecutive weeks
HALexWeeks(nn, HT, AT) ==
    LET P == nn \div 2
        Col(ww) == [x \in List0(2 * P) |->
            IF x < P THEN HAVec(nn, AT, x, ww) ELSE HAVec(nn, HT, x - P, ww)]
    IN \A ww \in List0((nn - 1) - 1) : lex_less_onehot_seq(Col(ww), Col(ww + 1))

\* lines 43-105: everything solver.add receives
HAHolds(nn, sb, HT, AT) ==
    /\ HASlot(nn, HT, AT)
    /\ sb => HAOrientation(nn, HT, AT)
    /\ HAPairs(nn, HT, AT)
    /\ HAWeeks(nn, HT, AT)
    /\ HAAtMostTwice(nn, HT, AT)
    /\ sb => /\ HAWeekOneFixed(nn, HT, AT)
             /\ HALexPeriods(nn, HT, AT)
             /\ HALexWeeks(nn, HT, AT)

(***************************************************************************)
(* solve_sat_instance.py: the decoders.  The SAT back end reports a model  *)
(* as a list of signed DIMACS ids; varmap maps the z3 variable names to    *)
(* their ids.  A name is <<"pos", w+1, p+1, k+1>>, <<"H", p+1, w+1, t+1>>  *)
(* or <<"A", p+1, w+1, t+1>> (the code's f-strings); the numbering is any  *)
(* injection, here the order of creation.                                  *)
(***************************************************************************)
\* sat_model_rr.py line 52, sat_model_ha.py lines 31 and 35
PosName(ww, pp, kk) == <<"pos", ww + 1, pp + 1, kk + 1>>
HName(pp, ww, t) == <<"H", pp + 1, ww + 1, t + 1>>
AName(pp, ww, t) == <<"A", pp + 1, ww + 1, t + 1>>

\* lines 85-97: name -> DIMACS id
varmap_rr(nn) ==
    [nm \in {PosName(ww, pp, kk) : ww \in Weeks(nn), pp \in Periods(nn), kk \in Periods(nn)}
        |-> 1 + ((nm[2] - 1) * (nn \div 2) + (nm[3] - 1)) * (nn \div 2) + (nm[4] - 1)]

varmap_ha(nn) ==
    [nm \in {HName(pp, ww, t) : pp \in Periods(nn), ww \in Weeks(nn), t \in List0(nn)}
            \cup {AName(pp, ww, t) : pp \in Periods(nn), ww \in Weeks(nn), t \in List0(nn)}
        |-> 1 + 2 * (((nm[2] - 1) * (nn - 1) + (nm[3] - 1)) * nn + (nm[4] - 1))
              + (IF nm[1] = "A" THEN 1 ELSE 0)]

\* line 288: sat_solver.get_model(), every variable with its sign
get_model(varmap, trueNames) ==
    {IF nm \in trueNames THEN varmap[nm] ELSE 0 - varmap[nm] : nm \in DOMAIN varmap}

\* the first index of a range(len) loop that satisfies a test, or -1 for None
FirstIn(S) == IF S = {} THEN 0 - 1 ELSE CHOOSE x \in S : \A y \in S : x <= y

\* line 139
model_set(model_values) == model_values \cap (Nat \ {0})

\* lines 147-157, 165-169: the loop's result for one slot, -1 for None
home_team(model_values, nn, varmap, pp, ww) ==
    FirstIn({t \in List0(nn) :
               HName(pp, ww, t) \in DOMAIN varmap /\ varmap[HName(pp, ww, t)] \in model_set(model_values)})

away_team(model_values, nn, varmap, pp, ww) ==
    FirstIn({t \in List0(nn) :
               AName(pp, ww, t) \in DOMAIN varmap /\ varmap[AName(pp, ww, t)] \in model_set(model_values)})

chosen_k(model_values, nn, varmap, pp, ww) ==
    FirstIn({kk \in List0(nn \div 2) :
               PosName(ww, pp, kk) \in DOMAIN varmap
               /\ varmap[PosName(ww, pp, kk)] \in model_set(model_values)})

\* a variant of parse_decision_raises: a missing away team goes unnoticed
parse_decision_raises_mut(model_values, mdl, nn, varmap) ==
    \E pp \in List0(nn \div 2) : \E ww \in List0(nn - 1) :
        IF mdl = "ha"
        THEN home_team(model_values, nn, varmap, pp, ww) < 0
        ELSE chosen_k(model_values, nn, varmap, pp, ww) < 0

\* lines 158-159, 170-171: the RuntimeError raised when a slot has no true variable
parse_decision_raises(model_values, mdl, nn, varmap) ==
    \E pp \in List0(nn \div 2) : \E ww \in List0(nn - 1) :
        IF mdl = "ha"
        THEN home_team(model_values, nn, varmap, pp, ww) < 0
             \/ away_team(model_values, nn, varmap, pp, ww) < 0
        ELSE chosen_k(model_values, nn, varmap, pp, ww) < 0

\* lines 128-176: the schedule returned when nothing is raised
parse_decision_output(model_values, mdl, nn, varmap, HomeT, AwayT) ==
    [pp \in 1 .. (nn \div 2) |-> [ww \in 1 .. (nn - 1) |->
        IF mdl = "ha"
        THEN <<home_team(model_values, nn, varmap, pp - 1, ww - 1) + 1,
               away_team(model_values, nn, varmap, pp - 1, ww - 1) + 1>>
        ELSE <<HomeT[ww - 1][chosen_k(model_values, nn, varmap, pp - 1, ww - 1)],
               AwayT[ww - 1][chosen_k(model_values, nn, varmap, pp - 1, ww - 1)]>>]]

\* lines 198-202: the index found for one slot of a z3 model, -1 for None
chosen_k_opt(posT, nn, pp, ww) == FirstIn({kk \in List0(nn \div 2) : <<ww, pp, kk>> \in posT})

\* lines 203-204
parse_optimization_raises(posT, nn) ==
    \E pp \in List0(nn \div 2) : \E ww \in List0(nn - 1) : chosen_k_opt(posT, nn, pp, ww) < 0

\* a variant of parse_optimization_output: the swap variables ignored
parse_optimization_output_mut(posT, swapT, nn, HomeT, AwayT) ==
    [pp \in 1 .. (nn \div 2) |-> [ww \in 1 .. (nn - 1) |->
        <<HomeT[ww - 1][chosen_k_opt(posT, nn, pp - 1, ww - 1)],
          AwayT[ww - 1][chosen_k_opt(posT, nn, pp - 1, ww - 1)]>>]]

\* lines 182-215; the z3 model is the pair of sets of true variables
parse_optimization_output(posT, swapT, nn, HomeT, AwayT) ==
    [pp \in 1 .. (nn \div 2) |-> [ww \in 1 .. (nn - 1) |->
        IF <<ww - 1, pp - 1>> \in swapT
        THEN <<AwayT[ww - 1][chosen_k_opt(posT, nn, pp - 1, ww - 1)],
               HomeT[ww - 1][chosen_k_opt(posT, nn, pp - 1, ww - 1)]>>
        ELSE <<HomeT[ww - 1][chosen_k_opt(posT, nn, pp - 1, ww - 1)],
               AwayT[ww - 1][chosen_k_opt(posT, nn, pp - 1, ww - 1)]>>]]

(***************************************************************************)
(* What a schedule (P rows of W pairs) must satisfy, stated by counting.   *)
(***************************************************************************)
Slots(S) == {<<pp, ww>> : pp \in DOMAIN S, ww \in UNION {DOMAIN S[q] : q \in DOMAIN S}}

\* every unordered pair of distinct teams of 1..nn occupies exactly one slot
PairsExactlyOnce(S, nn) ==
    \A i, j \in 1 .. nn :
        i < j => Cardinality({sl \in Slots(S) :
                                {S[sl[1]][sl[2]][1], S[sl[1]][sl[2]][2]} = {i, j}}) = 1

\* the number of appearances (home or away) of team t in a set of slots
Appearances(S, SL, t) ==
    Cardinality({sl \in SL : S[sl[1]][sl[2]][1] = t})
    + Cardinality({sl \in SL : S[sl[1]][sl[2]][2] = t})

OncePerWeek(S, nn) ==
    \A ww \in 1 .. (nn - 1) : \A t \in 1 .. nn :
        Appearances(S, {sl \in Slots(S) : sl[2] = ww}, t) = 1

AtMostTwicePerPeriod(S, nn) ==
    \A pp \in DOMAIN S : \A t \in 1 .. nn :
        Appearances(S, {sl \in Slots(S) : sl[1] = pp}, t) <= 2

NoSelfPlay(S) == \A sl \in Slots(S) : S[sl[1]][sl[2]][1] # S[sl[1]][sl[2]][2]

IsGrid(S, nn) ==
    /\ DOMAIN S = 1 .. (nn \div 2)
    /\ \A pp \in DOMAIN S : DOMAIN S[pp] = 1 .. (nn - 1)

(***************************************************************************)
(* Driver of the RR encoder in decision mode: build the tables, let the    *)
(* SAT back end try a candidate assignment (one match index per slot, a    *)
(* permutation per week, possibly with one variable flipped), keep it if   *)
(* it satisfies the constraints, decode it.                                *)
(***************************************************************************)
Perms(P) ==
    {f \in [List0(P) -> List0(P)] : \A a, b \in List0(P) : a # b => f[a] # f[b]}

PosOf(nn, perm) == {<<ww, pp, perm[ww][pp]>> : ww \in Weeks(nn), pp \in Periods(nn)}

PosVars(nn) == Weeks(nn) \X Periods(nn) \X Periods(nn)

InitRR ==
    /\ pc = "rr_call"
    /\ n \in 0 .. MaxTeams
    /\ w = 0 /\ p = 0 /\ Home = <<>> /\ Away = <<>>
    /\ IdleAMK /\ IdleLex /\ IdleSat /\ IdleChk /\ IdleOpt /\ IdleBuild /\ IdleBatch /\ IdleMip /\ IdleSolve

\* sat_model_rr.py line 28
RRAssertFails ==
    /\ pc = "rr_call"
    /\ ~(n % 2 = 0 /\ n >= 2)
    /\ pc' = "assertion_error"
    /\ UNCHANGED <<batchVars, buildVars, mipVars, solveVars, chkVars, optVars, amkVars, lexVars, circleVars, satVars>>

\* sat_model_rr.py lines 28-60
RRBuild ==
    /\ pc = "rr_call"
    /\ n % 2 = 0 /\ n >= 2
    /\ Home' = HomeTable(n)
    /\ Away' = AwayTable(n)
    /\ pc' = "rr_built"
    /\ UNCHANGED <<batchVars, buildVars, mipVars, solveVars, chkVars, optVars, n, w, p, amkVars, lexVars, satVars>>

RRCandidate ==
    /\ pc = "rr_built"
    /\ \E perm \in [Weeks(n) -> Perms(n \div 2)] : pos' = PosOf(n, perm)
    /\ pc' = "rr_assigned"
    /\ UNCHANGED <<batchVars, buildVars, mipVars, solveVars, chkVars, optVars, amkVars, lexVars, circleVars, use_sb, optimization, grid, swap,
                   HomeHA, AwayHA, flipped, schedule>>

RRFlip ==
    /\ pc = "rr_assigned"
    /\ ~flipped
    /\ \E v \in PosVars(n) :
          pos' = IF v \in pos THEN pos \ {v} ELSE pos \cup {v}
    /\ flipped' = TRUE
    /\ UNCHANGED <<batchVars, buildVars, mipVars, solveVars, chkVars, optVars, pc, amkVars, lexVars, circleVars, use_sb, optimization, grid, swap,
                   HomeHA, AwayHA, schedule>>

\* solve_sat_instance.py lines 278-288: the back end answers sat with this model
RRSolve ==
    /\ pc = "rr_assigned"
    /\ RRHolds(n, optimization, use_sb, pos, swap) = TRUE
    /\ pc' = "rr_sat"
    /\ UNCHANGED <<batchVars, buildVars, mipVars, solveVars, chkVars, optVars, amkVars, lexVars, circleVars, satVars>>

\* solve_sat_instance.py lines 306-313
RRDecode ==
    /\ pc = "rr_sat"
    /\ \E varmap \in {varmap_rr(n)} :
       \E model_values \in {get_model(varmap, {PosName(v[1], v[2], v[3]) : v \in pos})} :
          IF parse_decision_raises(model_values, "rr", n, varmap)
          THEN pc' = "runtime_error" /\ schedule' = schedule
          ELSE /\ schedule' = parse_decision_output(model_values, "rr", n, varmap, Home, Away)
               /\ pc' = "rr_decoded"
    /\ UNCHANGED <<batchVars, buildVars, mipVars, solveVars, chkVars, optVars, amkVars, lexVars, circleVars, use_sb, optimization, grid, pos, swap,
                   HomeHA, AwayHA, flipped>>

NextRR == RRAssertFails \/ RRBuild \/ RRCandidate \/ RRFlip \/ RRSolve \/ RRDecode

SpecRR == InitRR /\ [][NextRR]_vars

\* C4: every assignment that satisfies the constraints of
\* SATModelRR.build_solver(n, False, False) decodes through
\* parse_decision_output(model='rr') to a schedule with every unordered pair in
\* exactly one slot, every team exactly once in every week and no team more
\* than twice in a period.
C4_RRModelsDecodeToSchedules ==
    /\ pc # "runtime_error"
    /\ pc = "rr_decoded" =>
        /\ IsGrid(schedule, n)
        /\ PairsExactlyOnce(schedule, n)
        /\ OncePerWeek(schedule, n)
        /\ AtMostTwicePerPeriod(schedule, n)

\* a six-team model of the constraints, decoded
C4_Witness == pc = "rr_decoded" /\ n = 6 /\ IsGrid(schedule, 6)

(***************************************************************************)
(* Symmetry breaking in the RR encoder.  The assignments that can satisfy  *)
(* the main constraints give one match index per slot and a permutation    *)
(* per week; satisfiability of a build is decided over all of them.        *)
(***************************************************************************)
RRAssignments(nn) == {PosOf(nn, perm) : perm \in [Weeks(nn) -> Perms(nn \div 2)]}

\* the constraints of SATModelRR.build_solver(nn, False, sb) have a model
RRSatisfiable(nn, sb) == \E q \in RRAssignments(nn) : RRHolds(nn, FALSE, sb, q, {})

\* the answer for every build of the exploration: even team count, with or
\* without symmetry breaking
RRBuildSat ==
    [nn \in {x \in 2 .. MaxTeams : x % 2 = 0} |-> [sb \in BOOLEAN |-> RRSatisfiable(nn, sb)]]

\* C11: whenever the constraints of SATModelRR.build_solver(n, False, False)
\* have a model, the constraints of SATModelRR.build_solver(n, False, True)
\* (week 1 fixed to the identity, strict lex order between consecutive periods
\* and between consecutive weeks) have a model too.
C11_RRSymmetryBreakingLosesNothing ==
    (pc = "rr_sat" /\ ~use_sb /\ ~optimization) => RRBuildSat[n][TRUE]

\* a six-team model of the plain build that the symmetry breaking rejects
C11_Witness ==
    /\ pc = "rr_sat" /\ ~use_sb /\ ~optimization /\ n = 6
    /\ ~RRHolds(6, FALSE, TRUE, pos, {})

(***************************************************************************)
(* Driver of the HA encoder: the SAT back end tries a candidate assignment *)
(* (the matches of the circle method placed week by week, possibly with    *)
(* one variable toggled or one slot rewritten), keeps it if it satisfies   *)
(* the constraints, and the model is decoded.                              *)
(***************************************************************************)
HAVars(nn) == Periods(nn) \X Weeks(nn) \X List0(nn)

\* the placements the back end starts from: the first two weeks in table order
Placements(nn) ==
    {f \in [Weeks(nn) -> Perms(nn \div 2)] :
        \A ww \in Weeks(nn) : \A pp \in Periods(nn) : ww < 2 => f[ww][pp] = pp}

InitHA ==
    /\ pc = "ha_call"
    /\ n \in 0 .. MaxTeams
    /\ w = 0 /\ p = 0 /\ Home = <<>> /\ Away = <<>>
    /\ IdleAMK /\ IdleLex /\ IdleSat /\ IdleChk /\ IdleOpt /\ IdleBuild /\ IdleBatch /\ IdleMip /\ IdleSolve

\* sat_model_ha.py line 20
HAAssertFails ==
    /\ pc = "ha_call"
    /\ ~(n % 2 = 0 /\ n >= 2)
    /\ pc' = "assertion_error"
    /\ UNCHANGED <<batchVars, buildVars, mipVars, solveVars, chkVars, optVars, amkVars, lexVars, circleVars, satVars>>

\* sat_model_ha.py lines 20-36
HABuild ==
    /\ pc = "ha_call"
    /\ n % 2 = 0 /\ n >= 2
    /\ pc' = "ha_built"
    /\ UNCHANGED <<batchVars, buildVars, mipVars, solveVars, chkVars, optVars, amkVars, lexVars, circleVars, satVars>>

HACandidate ==
    /\ pc = "ha_built"
    /\ \E perm \in Placements(n) :
          /\ HomeHA' = {<<pp, ww, HomeAt(n, ww, perm[ww][pp]) - 1>> :
                            pp \in Periods(n), ww \in Weeks(n)}
          /\ AwayHA' = {<<pp, ww, AwayAt(n, ww, perm[ww][pp]) - 1>> :
                            pp \in Periods(n), ww \in Weeks(n)}
    /\ pc' = "ha_assigned"
    /\ UNCHANGED <<batchVars, buildVars, mipVars, solveVars, chkVars, optVars, amkVars, lexVars, circleVars, use_sb, optimization, grid, pos, swap,
                   flipped, schedule>>

\* one Home or Away variable gets the other truth value
HAToggle ==
    /\ pc = "ha_assigned"
    /\ ~flipped
    /\ \E v \in HAVars(n) :
          \/ /\ HomeHA' = IF v \in HomeHA THEN HomeHA \ {v} ELSE HomeHA \cup {v}
             /\ AwayHA' = AwayHA
          \/ /\ AwayHA' = IF v \in AwayHA THEN AwayHA \ {v} ELSE AwayHA \cup {v}
             /\ HomeHA' = HomeHA
    /\ flipped' = TRUE
    /\ UNCHANGED <<batchVars, buildVars, mipVars, solveVars, chkVars, optVars, pc, amkVars, lexVars, circleVars, use_sb, optimization, grid, pos, swap,
                   schedule>>

\* one slot gets another home team, or another away team
HARewrite ==
    /\ pc = "ha_assigned"
    /\ ~flipped
    /\ \E pp \in Periods(n) : \E ww \in Weeks(n) : \E t \in List0(n) :
          \/ /\ HomeHA' = {v \in HomeHA : ~(v[1] = pp /\ v[2] = ww)} \cup {<<pp, ww, t>>}
             /\ AwayHA' = AwayHA
          \/ /\ AwayHA' = {v \in AwayHA : ~(v[1] = pp /\ v[2] = ww)} \cup {<<pp, ww, t>>}
             /\ HomeHA' = HomeHA
    /\ flipped' = TRUE
    /\ UNCHANGED <<batchVars, buildVars, mipVars, solveVars, chkVars, optVars, pc, amkVars, lexVars, circleVars, use_sb, optimization, grid, pos, swap,
                   schedule>>

\* one slot gets its home team and its away team exchanged
HASwapSides ==
    /\ pc = "ha_assigned"
    /\ ~flipped
    /\ \E pp \in Periods(n) : \E ww \in Weeks(n) :
          /\ HomeHA' = {v \in HomeHA : ~(v[1] = pp /\ v[2] = ww)}
                            \cup {v \in AwayHA : v[1] = pp /\ v[2] = ww}
          /\ AwayHA' = {v \in AwayHA : ~(v[1] = pp /\ v[2] = ww)}
                            \cup {v \in HomeHA : v[1] = pp /\ v[2] = ww}
    /\ flipped' = TRUE
    /\ UNCHANGED <<batchVars, buildVars, mipVars, solveVars, chkVars, optVars, pc, amkVars, lexVars, circleVars, use_sb, optimization, grid, pos, swap,
                   schedule>>

\* solve_sat_instance.py lines 278-288: the back end answers sat with this model
HASolve ==
    /\ pc = "ha_assigned"
    /\ HAHolds(n, use_sb, HomeHA, AwayHA) = TRUE
    /\ pc' = "ha_sat"
    /\ UNCHANGED <<batchVars, buildVars, mipVars, solveVars, chkVars, optVars, amkVars, lexVars, circleVars, satVars>>

\* solve_sat_instance.py lines 306-313
HADecode ==
    /\ pc = "ha_sat"
    /\ \E varmap \in {varmap_ha(n)} :
       \E model_values \in {get_model(varmap,
                               {HName(v[1], v[2], v[3]) : v \in HomeHA}
                                   \cup {AName(v[1], v[2], v[3]) : v \in AwayHA})} :
          IF parse_decision_raises(model_values, "ha", n, varmap)
          THEN pc' = "runtime_error" /\ schedule' = schedule
          ELSE /\ schedule' = parse_decision_output(model_values, "ha", n, varmap, Home, Away)
               /\ pc' = "ha_decoded"
    /\ UNCHANGED <<batchVars, buildVars, mipVars, solveVars, chkVars, optVars, amkVars, lexVars, circleVars, use_sb, optimization, grid, pos, swap,
                   HomeHA, AwayHA, flipped>>

NextHA ==
    \/ HAAssertFails \/ HABuild \/ HACandidate
    \/ HAToggle \/ HARewrite \/ HASwapSides
    \/ HASolve \/ HADecode

SpecHA == InitHA /\ [][NextHA]_vars

\* the team a slot selects under an assignment, when it selects exactly one
TeamAt(T, pp, ww) == CHOOSE t \in {v[3] : v \in {x \in T : x[1] = pp /\ x[2] = ww}} : TRUE

\* each slot has exactly one true Home variable and exactly one true Away variable
SelectsOneEach(nn, HT, AT) ==
    \A pp \in Periods(nn) : \A ww \in Weeks(nn) :
        /\ Cardinality({v \in HT : v[1] = pp /\ v[2] = ww}) = 1
        /\ Cardinality({v \in AT : v[1] = pp /\ v[2] = ww}) = 1

\* the schedule an assignment with one team of each kind per slot stands for
ScheduleOf(nn, HT, AT) ==
    [pp \in 1 .. (nn \div 2) |-> [ww \in 1 .. (nn - 1) |->
        <<TeamAt(HT, pp - 1, ww - 1) + 1, TeamAt(AT, pp - 1, ww - 1) + 1>>]]

\* C3: an assignment to the Home/Away variables of
\* SATModelHA.build_solver(n, False) extends to the counter auxiliaries so
\* that every emitted constraint holds if and only if every slot selects
\* exactly one home and one away team and the schedule they form has
\* home != away in every slot, every unordered pair in exactly one slot, every
\* team exactly once in every week and every team at most twice in every period.
C3_HAConstraintsMeanSchedule ==
    (pc = "ha_assigned" /\ ~use_sb) =>
        (HAHolds(n, FALSE, HomeHA, AwayHA)
            <=> /\ SelectsOneEach(n, HomeHA, AwayHA)
                /\ NoSelfPlay(ScheduleOf(n, HomeHA, AwayHA))
                /\ PairsExactlyOnce(ScheduleOf(n, HomeHA, AwayHA), n)
                /\ OncePerWeek(ScheduleOf(n, HomeHA, AwayHA), n)
                /\ AtMostTwicePerPeriod(ScheduleOf(n, HomeHA, AwayHA), n))

\* a six-team assignment that satisfies the constraints
C3_Witness ==
    /\ pc = "ha_assigned" /\ ~use_sb /\ n = 6
    /\ HAHolds(n, FALSE, HomeHA, AwayHA)

(***************************************************************************)
(* The canonical form of a schedule: teams renamed so that the first week  *)
(* reads (1,2), (3,4), ..., every slot turned so that home < away, and the *)
(* weeks sorted by their column (away teams by period, then home teams).   *)
(***************************************************************************)
\* the new 0-based name of team t: by its slot of the first week
Renamed(nn, HT, AT, t) ==
    IF \E pp \in Periods(nn) : <<pp, 0, t>> \in HT
    THEN 2 * (CHOOSE pp \in Periods(nn) : <<pp, 0, t>> \in HT)
    ELSE 2 * (CHOOSE pp \in Periods(nn) : <<pp, 0, t>> \in AT) + 1

\* the renamed teams of a slot, smaller first
TurnedHome(nn, HT, AT, pp, ww) ==
    Min(Renamed(nn, HT, AT, TeamAt(HT, pp, ww)), Renamed(nn, HT, AT, TeamAt(AT, pp, ww)))

TurnedAway(nn, HT, AT, pp, ww) ==
    Max(Renamed(nn, HT, AT, TeamAt(HT, pp, ww)), Renamed(nn, HT, AT, TeamAt(AT, pp, ww)))

\* the column of a week: the away teams by period, then the home teams
Column(nn, HT, AT, ww) ==
    [x \in List0(2 * (nn \div 2)) |->
        IF x < nn \div 2 THEN TurnedAway(nn, HT, AT, x, ww)
        ELSE TurnedHome(nn, HT, AT, x - (nn \div 2), ww)]

ColumnBefore(c, d) ==
    \E x \in DOMAIN c : c[x] < d[x] /\ \A y \in DOMAIN c : y < x => c[y] = d[y]

\* the place of a week once the weeks are sorted by column
Place(cols, ww) == Cardinality({v \in DOMAIN cols : ColumnBefore(cols[v], cols[ww])})

CanonicalHome(nn, HT, AT) ==
    LET cols == [ww \in Weeks(nn) |-> Column(nn, HT, AT, ww)]
    IN {<<pp, Place(cols, ww), TurnedHome(nn, HT, AT, pp, ww)>> :
            pp \in Periods(nn), ww \in Weeks(nn)}

CanonicalAway(nn, HT, AT) ==
    LET cols == [ww \in Weeks(nn) |-> Column(nn, HT, AT, ww)]
    IN {<<pp, Place(cols, ww), TurnedAway(nn, HT, AT, pp, ww)>> :
            pp \in Periods(nn), ww \in Weeks(nn)}

\* C10: symmetry breaking in the HA encoder loses no instance: whenever an
\* assignment satisfies the constraints of build_solver(n, False), its
\* canonical form satisfies the constraints of build_solver(n, True), so the
\* second set of constraints is satisfiable whenever the first is.
C10_HASymmetryBreakingLosesNothing ==
    (pc = "ha_sat" /\ ~use_sb) =>
        \E CH \in {CanonicalHome(n, HomeHA, AwayHA)} :
        \E CA \in {CanonicalAway(n, HomeHA, AwayHA)} :
            HAHolds(n, TRUE, CH, CA)

\* a six-team model of the plain constraints that is not itself in canonical
\* form: some slot has home > away
C10_Witness ==
    /\ pc = "ha_sat" /\ ~use_sb /\ n = 6
    /\ \E v \in HomeHA : \E u \in AwayHA : v[1] = u[1] /\ v[2] = u[2] /\ v[3] > u[3]
    /\ ~HAHolds(n, TRUE, HomeHA, AwayHA)

(***************************************************************************)
(* Driver of the decoders on their own: a schedule is turned into the      *)
(* assignment of the HA variables and decoded; a choice of one match index *)
(* per slot (and of swap bits, in optimisation mode) is decoded by the RR  *)
(* decoders.                                                               *)
(***************************************************************************)
\* a schedule to start from: slot number i holds teams i and i + d (mod nn)
BaseGrid(nn, d) ==
    [pp \in 1 .. (nn \div 2) |-> [ww \in 1 .. (nn - 1) |->
        <<(((pp - 1) * (nn - 1) + (ww - 1)) % nn) + 1,
          (((pp - 1) * (nn - 1) + (ww - 1) + d) % nn) + 1>>]]

\* a choice of indices to start from: slot (w, p) selects p + s * w (mod P)
BasePos(nn, s) ==
    {<<ww, pp, (pp + s * ww) % (nn \div 2)>> : ww \in Weeks(nn), pp \in Periods(nn)}

InitDecode ==
    /\ pc = "dec_call"
    /\ n \in 0 .. MaxTeams
    /\ w = 0 /\ p = 0 /\ Home = <<>> /\ Away = <<>>
    /\ IdleAMK /\ IdleLex /\ IdleSat /\ IdleChk /\ IdleOpt /\ IdleBuild /\ IdleBatch /\ IdleMip /\ IdleSolve

DecInputHA ==
    /\ pc = "dec_call"
    /\ \E d \in List0(n) : grid' = BaseGrid(n, d)
    /\ pc' = "dec_ha_input"
    /\ UNCHANGED <<batchVars, buildVars, mipVars, solveVars, chkVars, optVars, amkVars, lexVars, circleVars, use_sb, optimization, pos, swap,
                   HomeHA, AwayHA, flipped, schedule>>

DecEditHA ==
    /\ pc = "dec_ha_input"
    /\ ~flipped
    /\ \E pp \in DOMAIN grid : \E ww \in DOMAIN grid[pp] : \E h \in 1 .. n : \E a \in 1 .. n :
          grid' = [grid EXCEPT ![pp][ww] = <<h, a>>]
    /\ flipped' = TRUE
    /\ UNCHANGED <<batchVars, buildVars, mipVars, solveVars, chkVars, optVars, pc, amkVars, lexVars, circleVars, use_sb, optimization, pos, swap,
                   HomeHA, AwayHA, schedule>>

\* the assignment with exactly H_p_w_home and A_p_w_away true for every slot
DecEncodeHA ==
    /\ pc = "dec_ha_input"
    /\ HomeHA' = {<<sl[1] - 1, sl[2] - 1, grid[sl[1]][sl[2]][1] - 1>> : sl \in Slots(grid)}
    /\ AwayHA' = {<<sl[1] - 1, sl[2] - 1, grid[sl[1]][sl[2]][2] - 1>> : sl \in Slots(grid)}
    /\ pc' = "dec_ha_model"
    /\ UNCHANGED <<batchVars, buildVars, mipVars, solveVars, chkVars, optVars, amkVars, lexVars, circleVars, use_sb, optimization, grid, pos, swap,
                   flipped, schedule>>

\* solve_sat_instance.py lines 306-313
DecDecodeHA ==
    /\ pc = "dec_ha_model"
    /\ \E varmap \in {varmap_ha(n)} :
       \E model_values \in {get_model(varmap,
                               {HName(v[1], v[2], v[3]) : v \in HomeHA}
                                   \cup {AName(v[1], v[2], v[3]) : v \in AwayHA})} :
          IF parse_decision_raises(model_values, "ha", n, varmap)
          THEN pc' = "runtime_error" /\ schedule' = schedule
          ELSE /\ schedule' = parse_decision_output(model_values, "ha", n, varmap, Home, Away)
               /\ pc' = "dec_ha_done"
    /\ UNCHANGED <<batchVars, buildVars, mipVars, solveVars, chkVars, optVars, amkVars, lexVars, circleVars, use_sb, optimization, grid, pos, swap,
                   HomeHA, AwayHA, flipped>>

\* sat_model_rr.py lines 28-60, then one true pos variable per slot
DecInputRR ==
    /\ pc = "dec_call"
    /\ n % 2 = 0 /\ n >= 2
    /\ Home' = HomeTable(n)
    /\ Away' = AwayTable(n)
    /\ optimization' \in BOOLEAN
    /\ \E s \in Periods(n) : pos' = BasePos(n, s)
    /\ pc' = "dec_rr_input"
    /\ UNCHANGED <<batchVars, buildVars, mipVars, solveVars, chkVars, optVars, n, w, p, amkVars, lexVars, use_sb, grid, swap, HomeHA, AwayHA,
                   flipped, schedule>>

\* one slot selects another index
DecEditRR ==
    /\ pc = "dec_rr_input"
    /\ ~flipped
    /\ \E ww \in Weeks(n) : \E pp \in Periods(n) : \E kk \in Periods(n) :
          pos' = {v \in pos : ~(v[1] = ww /\ v[2] = pp)} \cup {<<ww, pp, kk>>}
    /\ flipped' = TRUE
    /\ UNCHANGED <<batchVars, buildVars, mipVars, solveVars, chkVars, optVars, pc, amkVars, lexVars, circleVars, use_sb, optimization, grid, swap,
                   HomeHA, AwayHA, schedule>>

\* one more swap variable is true
DecSwapBit ==
    /\ pc = "dec_rr_input"
    /\ optimization
    /\ Cardinality(swap) < MaxSwaps
    /\ \E ww \in Weeks(n) : \E pp \in Periods(n) :
          /\ <<ww, pp>> \notin swap
          /\ swap' = swap \cup {<<ww, pp>>}
    /\ UNCHANGED <<batchVars, buildVars, mipVars, solveVars, chkVars, optVars, pc, amkVars, lexVars, circleVars, use_sb, optimization, grid, pos,
                   HomeHA, AwayHA, flipped, schedule>>

\* solve_sat_instance.py lines 240-241 (optimisation) and 306-313 (decision)
DecDecodeRR ==
    /\ pc = "dec_rr_input"
    /\ IF optimization
       THEN IF parse_optimization_raises(pos, n)
            THEN pc' = "runtime_error" /\ schedule' = schedule
            ELSE /\ schedule' = parse_optimization_output(pos, swap, n, Home, Away)
                 /\ pc' = "dec_rr_done"
       ELSE \E varmap \in {varmap_rr(n)} :
            \E model_values \in {get_model(varmap, {PosName(v[1], v[2], v[3]) : v \in pos})} :
               IF parse_decision_raises(model_values, "rr", n, varmap)
               THEN pc' = "runtime_error" /\ schedule' = schedule
               ELSE /\ schedule' = parse_decision_output(model_values, "rr", n, varmap,
                                                         Home, Away)
                    /\ pc' = "dec_rr_done"
    /\ UNCHANGED <<batchVars, buildVars, mipVars, solveVars, chkVars, optVars, amkVars, lexVars, circleVars, use_sb, optimization, grid, pos, swap,
                   HomeHA, AwayHA, flipped>>

NextDecode ==
    \/ DecInputHA \/ DecEditHA \/ DecEncodeHA \/ DecDecodeHA
    \/ DecInputRR \/ DecEditRR \/ DecSwapBit \/ DecDecodeRR

SpecDecode == InitDecode /\ [][NextDecode]_vars

\* the index a slot selects under a choice of one index per slot
IndexAt(posT, ww, pp) == CHOOSE kk \in {v[3] : v \in {x \in posT : x[1] = ww /\ x[2] = pp}} : TRUE

\* C8: round trip of the decoders.  The assignment that sets exactly
\* H_p_w_home and A_p_w_away true for each slot of a schedule is decoded by
\* parse_decision_output(model='ha') to that schedule; for a choice of one
\* match index k per slot the RR decoders return
\* schedule[p][w] = [Home[w][k], Away[w][k]], the two entries exchanged exactly
\* when the optimisation decoder reads swap[w][p] true; no decoder raises.
C8_DecodersRoundTrip ==
    /\ pc # "runtime_error"
    /\ pc = "dec_ha_done" => schedule = grid
    /\ pc = "dec_rr_done" =>
          /\ IsGrid(schedule, n)
          /\ \A ww \in Weeks(n) : \A pp \in Periods(n) :
                schedule[pp + 1][ww + 1] =
                    IF optimization /\ <<ww, pp>> \in swap
                    THEN <<Away[ww][IndexAt(pos, ww, pp)], Home[ww][IndexAt(pos, ww, pp)]>>
                    ELSE <<Home[ww][IndexAt(pos, ww, pp)], Away[ww][IndexAt(pos, ww, pp)]>>

\* a six-team choice of indices with a swapped slot, decoded in optimisation mode
C8_Witness ==
    /\ pc = "dec_rr_done" /\ optimization /\ n = 6
    /\ swap # {}
    /\ \E v \in swap : schedule[v[2] + 1][v[1] + 1][1] < schedule[v[2] + 1][v[1] + 1][2]

(***************************************************************************)
(* The decoders on assignments that leave a slot unresolved: the driver    *)
(* above, without the edits and the swaps, and with up to MaxDrops of the *)
(* true variables made false before the model is decoded.                  *)
(***************************************************************************)
\* the number of variables of the assignment a slot needs: one home and one
\* away variable (HA), one match-index variable (RR)
DropsHA == 2 * Cardinality(Slots(grid)) - Cardinality(HomeHA) - Cardinality(AwayHA)
DropsRR == Cardinality(Weeks(n) \X Periods(n)) - Cardinality(pos)

\* one true variable Home[p][w][t] or Away[p][w][t] becomes false
DecDropHA ==
    /\ pc = "dec_ha_model"
    /\ DropsHA < MaxDrops
    /\ \/ \E v \in HomeHA : HomeHA' = HomeHA \ {v} /\ AwayHA' = AwayHA
       \/ \E v \in AwayHA : AwayHA' = AwayHA \ {v} /\ HomeHA' = HomeHA
    /\ UNCHANGED <<batchVars, buildVars, mipVars, solveVars, chkVars, optVars, pc, amkVars, lexVars, circleVars, use_sb, optimization, grid,
                   pos, swap, flipped, schedule>>

\* one true variable pos[w][p][k] becomes false
DecDropRR ==
    /\ pc = "dec_rr_input"
    /\ DropsRR < MaxDrops
    /\ \E v \in pos : pos' = pos \ {v}
    /\ UNCHANGED <<batchVars, buildVars, mipVars, solveVars, chkVars, optVars, pc, amkVars, lexVars, circleVars, use_sb, optimization, grid,
                   swap, HomeHA, AwayHA, flipped, schedule>>

NextPartial ==
    \/ DecInputHA \/ DecEncodeHA \/ DecDropHA \/ DecDecodeHA
    \/ DecInputRR \/ DecDropRR \/ DecDecodeRR

SpecPartial == InitDecode /\ [][NextPartial]_vars

\* every slot has a true home and a true away variable
ResolvedHA ==
    \A sl \in Slots(grid) :
        /\ \E t \in List0(n) : <<sl[1] - 1, sl[2] - 1, t>> \in HomeHA
        /\ \E t \in List0(n) : <<sl[1] - 1, sl[2] - 1, t>> \in AwayHA

\* every slot has a true match-index variable
ResolvedRR ==
    \A ww \in Weeks(n) : \A pp \in Periods(n) : \E kk \in Periods(n) : <<ww, pp, kk>> \in pos

\* C13: the decoders fail instead of returning a partial schedule: when some
\* slot has no true home variable or no true away variable (model 'ha'), or no
\* true match-index variable (model 'rr' and parse_optimization_output), the
\* decoder raises and no schedule is returned; a schedule is returned only
\* from an assignment that resolves every slot.
C13_DecodersFailOnUnresolvedSlot ==
    /\ pc = "dec_ha_done" => ResolvedHA
    /\ pc = "dec_rr_done" => ResolvedRR
    /\ pc = "runtime_error" =>
          /\ schedule = <<>>
          /\ (grid # <<>> /\ ~ResolvedHA) \/ (grid = <<>> /\ ~ResolvedRR)

\* a six-team assignment with one slot left without an away team, refused
C13_Witness ==
    /\ pc = "runtime_error" /\ n = 6 /\ schedule = <<>>
    /\ grid # <<>> /\ DropsHA = 1 /\ Cardinality(AwayHA) < Cardinality(HomeHA)

(***************************************************************************)
(* solution_checker.py.  A solution is a list of rows, a row a list of     *)
(* [home, away] pairs of integers; Python lists are sequences.             *)
(***************************************************************************)
\* the concatenation of the lists of a list (elements += ... in get_elements)
RECURSIVE ConcatFrom(_, _)
ConcatFrom(ls, i) == IF i > Len(ls) THEN <<>> ELSE ls[i] \o ConcatFrom(ls, i + 1)

\* line 27 and lines 8-15: no row passes the test, every row of pairs does
get_matches(sol) == ConcatFrom(sol, 1)

\* line 19 and lines 8-15: the integers of the pairs, in order
get_teams(sol) == ConcatFrom(get_matches(sol), 1)

\* line 19 on a list of pairs (a week, a period)
get_teams_of_pairs(ms) == ConcatFrom(ms, 1)

\* line 23 and lines 8-15: the rows, when every row has m elements; otherwise
\* the pairs of the rows (m = 2), or nothing from the empty rows
get_periods(sol, m) ==
    IF \A i \in DOMAIN sol : Len(sol[i]) = m THEN sol
    ELSE IF m = 2 THEN ConcatFrom(sol, 1)
    ELSE <<>>

\* lines 13-14 reached with an integer: all([... for i in s]) raises TypeError
get_periods_raises(sol, m) ==
    /\ ~(\A i \in DOMAIN sol : Len(sol[i]) = m)
    /\ m # 2
    /\ \E i \in DOMAIN sol : Len(sol[i]) > 0

\* line 31
get_weeks(periods, nn) ==
    [i \in 1 .. (nn - 1) |-> [q \in 1 .. Len(periods) |-> periods[q][i]]]

\* list.count
Count(ls, x) == Cardinality({i \in DOMAIN ls : ls[i] = x})

\* max of a non-empty list
MaxOf(ls) == CHOOSE x \in Range(ls) : \A y \in Range(ls) : y <= x

\* line 42: max() of an empty list raises ValueError
fatal_errors_raises(sol) == Len(sol) # 0 /\ get_teams(sol) = <<>>

\* a variant of fatal_errors: without the test of the parity of n
fatal_errors_mut(sol) ==
    IF Len(sol) = 0 THEN <<"The solution cannot be empty">>
    ELSE LET teams == get_teams(sol)
             nn == MaxOf(teams)
         IN (IF \E t \in 1 .. nn : t \notin Range(teams)
             THEN <<"Missing team in the solution or team out of range!!!">> ELSE <<>>)
            \o (IF Len(sol) # nn \div 2
                THEN <<"the number of periods is not compliant!!!">> ELSE <<>>)
            \o (IF \E i \in DOMAIN sol : Len(sol[i]) # nn - 1
                THEN <<"the number of weeks is not compliant!!!">> ELSE <<>>)

\* lines 34-57
fatal_errors(sol) ==
    IF Len(sol) = 0 THEN <<"The solution cannot be empty">>
    ELSE LET teams == get_teams(sol)
             nn == MaxOf(teams)
         IN (IF \E t \in 1 .. nn : t \notin Range(teams)
             THEN <<"Missing team in the solution or team out of range!!!">> ELSE <<>>)
            \o (IF nn % 2 # 0 THEN <<"\"n\" should be even!!!">> ELSE <<>>)
            \o (IF Len(sol) # nn \div 2
                THEN <<"the number of periods is not compliant!!!">> ELSE <<>>)
            \o (IF \E i \in DOMAIN sol : Len(sol[i]) # nn - 1
                THEN <<"the number of weeks is not compliant!!!">> ELSE <<>>)

\* lines 66-92: the violations found when there is no fatal error
rule_errors(sol) ==
    LET teams == get_teams(sol)
        nn == MaxOf(teams)
        solution_matches == get_matches(sol)
        periods == get_periods(sol, nn - 1)
        weeks == get_weeks(periods, nn)
        teams_per_week == [i \in DOMAIN weeks |-> get_teams_of_pairs(weeks[i])]
        teams_per_period == [i \in DOMAIN periods |-> get_teams_of_pairs(periods[i])]
    IN (IF \E h \in Range(teams) : \E a \in Range(teams) :
              /\ h # a
              /\ Count(solution_matches, <<h, a>>) + Count(solution_matches, <<a, h>>) > 1
        THEN <<"There are duplicated matches!!!">> ELSE <<>>)
       \o (IF \E i \in DOMAIN solution_matches :
                 solution_matches[i][1] = solution_matches[i][2]
           THEN <<"There are self-playing teams">> ELSE <<>>)
       \o (IF \E i \in DOMAIN teams_per_week :
                 Len(teams_per_week[i]) # Cardinality(Range(teams_per_week[i]))
           THEN <<"Some teams play multiple times in a week">> ELSE <<>>)
       \o (IF \E i \in DOMAIN teams_per_period :
                 Count(teams_per_period, teams_per_period[i]) > 2
           THEN <<"Some teams play more than twice in the period">> ELSE <<>>)

\* lines 60-94: the returned value, a str or a list of str
check_solution(sol) ==
    LET errors == IF Len(fatal_errors(sol)) = 0 THEN rule_errors(sol) ELSE fatal_errors(sol)
    IN IF Len(errors) = 0
       THEN [type |-> "str", str |-> "Valid solution", list |-> <<>>]
       ELSE [type |-> "list", str |-> "", list |-> errors]

(***************************************************************************)
(* Driver of the checker: a schedule made of the matches of the circle     *)
(* method placed week by week, possibly with one team id rewritten, one    *)
(* row shortened or the last row dropped, is checked.                      *)
(***************************************************************************)
InitChecker ==
    /\ pc = "chk_call"
    /\ n \in 0 .. MaxTeams
    /\ w = 0 /\ p = 0 /\ Home = <<>> /\ Away = <<>>
    /\ IdleAMK /\ IdleLex /\ IdleSat /\ IdleChk /\ IdleOpt /\ IdleBuild /\ IdleBatch /\ IdleMip /\ IdleSolve

ChkInput ==
    /\ pc = "chk_call"
    /\ n % 2 = 0 /\ n >= 2
    /\ \E perm \in Placements(n) :
          solution' = [pp \in 1 .. (n \div 2) |-> [ww \in 1 .. (n - 1) |->
                          <<HomeAt(n, ww - 1, perm[ww - 1][pp - 1]),
                            AwayAt(n, ww - 1, perm[ww - 1][pp - 1])>>]]
    /\ pc' = "chk_input"
    /\ UNCHANGED <<batchVars, buildVars, mipVars, solveVars, optVars, amkVars, lexVars, circleVars, satVars, result>>

\* one team id of the schedule is replaced, by an id of 0..n+1
ChkEditTeam ==
    /\ pc = "chk_input"
    /\ ~flipped
    /\ \E pp \in DOMAIN solution : \E ww \in DOMAIN solution[pp] :
       \E side \in 1 .. 2 : \E t \in 0 .. (n + 1) :
          solution' = [solution EXCEPT ![pp][ww][side] = t]
    /\ flipped' = TRUE
    /\ UNCHANGED <<batchVars, buildVars, mipVars, solveVars, pc, optVars, amkVars, lexVars, circleVars, use_sb, optimization, grid,
                   pos, swap, HomeHA, AwayHA, schedule, result>>

\* one row loses its last match
ChkShortenRow ==
    /\ pc = "chk_input"
    /\ ~flipped
    /\ \E pp \in DOMAIN solution :
          solution' = [solution EXCEPT ![pp] = SubSeq(solution[pp], 1, Len(solution[pp]) - 1)]
    /\ flipped' = TRUE
    /\ UNCHANGED <<batchVars, buildVars, mipVars, solveVars, pc, optVars, amkVars, lexVars, circleVars, use_sb, optimization, grid,
                   pos, swap, HomeHA, AwayHA, schedule, result>>

\* the last row is dropped
ChkDropRow ==
    /\ pc = "chk_input"
    /\ ~flipped
    /\ solution' = SubSeq(solution, 1, Len(solution) - 1)
    /\ flipped' = TRUE
    /\ UNCHANGED <<batchVars, buildVars, mipVars, solveVars, pc, optVars, amkVars, lexVars, circleVars, use_sb, optimization, grid,
                   pos, swap, HomeHA, AwayHA, schedule, result>>

\* lines 60-94
ChkRun ==
    /\ pc = "chk_input"
    /\ IF fatal_errors_raises(solution)
       THEN pc' = "value_error" /\ result' = result
       ELSE IF Len(fatal_errors(solution)) = 0
               /\ get_periods_raises(solution, MaxOf(get_teams(solution)) - 1)
            THEN pc' = "type_error" /\ result' = result
            ELSE pc' = "chk_done" /\ result' = check_solution(solution)
    /\ UNCHANGED <<batchVars, buildVars, mipVars, solveVars, optVars, amkVars, lexVars, circleVars, satVars, solution>>

NextChecker == ChkInput \/ ChkEditTeam \/ ChkShortenRow \/ ChkDropRow \/ ChkRun

SpecChecker == InitChecker /\ [][NextChecker]_vars

\* the largest team id of a schedule
LargestId(sol) == MaxOf(get_teams(sol))

\* the ids that occur in a schedule
IdsOf(sol) == Range(get_teams(sol))

\* every team occurs at most once in each week
AtMostOncePerWeek(S, nn) ==
    \A ww \in 1 .. (nn - 1) : \A t \in 1 .. nn :
        Appearances(S, {sl \in Slots(S) : sl[2] = ww}, t) <= 1

\* n/2 rows of n-1 pairs, n the largest id observed
IsScheduleShaped(sol) ==
    /\ Len(sol) > 0
    /\ get_teams(sol) # <<>>
    /\ IsGrid(sol, LargestId(sol))

\* C1: for every schedule of n/2 rows of n-1 pairs (n the largest id),
\* check_solution returns 'Valid solution' if and only if the ids are exactly
\* 1..n, every unordered pair occurs in exactly one slot, no slot has
\* home = away, every team occurs at most once in each week and every team
\* occurs at most twice in each period.
C1_ValidIffFiveRules ==
    (pc = "chk_done" /\ IsScheduleShaped(solution)) =>
        (result.type = "str"
            <=> /\ IdsOf(solution) = 1 .. LargestId(solution)
                /\ PairsExactlyOnce(solution, LargestId(solution))
                /\ NoSelfPlay(solution)
                /\ AtMostOncePerWeek(solution, LargestId(solution))
                /\ AtMostTwicePerPeriod(solution, LargestId(solution)))

\* C2: for every schedule that passes fatal_errors, if some team occurs in
\* more than two slots of one period row then check_solution returns a list
\* that contains 'Some teams play more than twice in the period'.
C2_PeriodOverloadReported ==
    (/\ pc = "chk_done"
     /\ Len(fatal_errors(solution)) = 0
     /\ ~AtMostTwicePerPeriod(solution, LargestId(solution))) =>
        /\ result.type = "list"
        /\ \E i \in DOMAIN result.list :
              result.list[i] = "Some teams play more than twice in the period"

\* C12: check_solution never raises: for every input list, a schedule with an
\* empty period row such as [[]] or rows of unequal length included, the call
\* ends with a returned value, 'Valid solution' or a list of violations.
C12_CheckSolutionNeverRaises ==
    /\ pc \notin {"value_error", "type_error"}
    /\ pc = "chk_done" => result.type \in {"str", "list"}

\* C17: whenever the set of team ids observed in the schedule is not exactly
\* 1..n, n the largest id observed, check_solution reports 'Missing team in
\* the solution or team out of range!!!'; in particular a schedule in which an
\* id smaller than 1 occurs is not a 'Valid solution'.
C17_IdsOutsideRangeReported ==
    (/\ pc = "chk_done"
     /\ get_teams(solution) # <<>>
     /\ IdsOf(solution) # 1 .. LargestId(solution)) =>
        /\ result.type = "list"
        /\ \E i \in DOMAIN result.list :
              result.list[i] = "Missing team in the solution or team out of range!!!"

(***************************************************************************)
(* The checker on schedules of the four-team shape whose ids go up to 5: a *)
(* circle-method placement for four teams with its team ids renamed by a   *)
(* map of 1..4 into 1..5, and possibly one more id replaced.               *)
(***************************************************************************)
InitRange ==
    /\ pc = "range_call"
    /\ n = 4
    /\ w = 0 /\ p = 0 /\ Home = <<>> /\ Away = <<>>
    /\ IdleAMK /\ IdleLex /\ IdleSat /\ IdleChk /\ IdleOpt /\ IdleBuild /\ IdleBatch /\ IdleMip /\ IdleSolve

RangeInput ==
    /\ pc = "range_call"
    /\ \E perm \in Placements(n) : \E f \in [1 .. n -> 1 .. (n + 1)] :
          solution' = [pp \in 1 .. (n \div 2) |-> [ww \in 1 .. (n - 1) |->
                          <<f[HomeAt(n, ww - 1, perm[ww - 1][pp - 1])],
                            f[AwayAt(n, ww - 1, perm[ww - 1][pp - 1])]>>]]
    /\ pc' = "range_input"
    /\ UNCHANGED <<batchVars, buildVars, mipVars, solveVars, optVars, amkVars, lexVars, circleVars, satVars, result>>

\* the schedule is checked, as it is or with one team id replaced by an id of 1..5
RangeEdit ==
    /\ pc = "range_input"
    /\ \/ solution' = solution
       \/ \E pp \in DOMAIN solution : \E ww \in DOMAIN solution[pp] :
          \E side \in 1 .. 2 : \E t \in 1 .. (n + 1) :
             solution' = [solution EXCEPT ![pp][ww][side] = t]
    /\ pc' = "chk_input"
    /\ UNCHANGED <<batchVars, buildVars, mipVars, solveVars, optVars, amkVars, lexVars, circleVars, satVars, result>>

NextRange == RangeInput \/ RangeEdit \/ ChkRun

SpecRange == InitRange /\ [][NextRange]_vars

\* the violations check_solution returned include msg
Reports(msg) == result.type = "list" /\ \E i \in DOMAIN result.list : result.list[i] = msg

\* a checked schedule of 2 period rows of 3 pairs, ids in 1..5, team 5 present
FiveInFourTeamShape ==
    /\ pc = "chk_done"
    /\ Len(solution) = 2
    /\ \A i \in DOMAIN solution : Len(solution[i]) = 3
    /\ IdsOf(solution) \subseteq 1 .. 5
    /\ 5 \in IdsOf(solution)

ScenarioSchedule ==
    << << <<1, 2>>, <<3, 1>>, <<4, 1>> >>,
       << <<3, 4>>, <<4, 2>>, <<2, 3>> >> >>

InitScenario ==
    /\ pc = "scen_call"
    /\ n = 4
    /\ w = 0 /\ p = 0 /\ Home = <<>> /\ Away = <<>>
    /\ IdleAMK /\ IdleLex /\ IdleSat /\ IdleChk /\ IdleOpt /\ IdleBuild /\ IdleBatch /\ IdleMip /\ IdleSolve

ScenInput ==
    /\ pc = "scen_call"
    /\ \E f \in Perms(n) : \E turned \in SUBSET Slots(ScenarioSchedule) :
          solution' = [pp \in 1 .. (n \div 2) |-> [ww \in 1 .. (n - 1) |->
                          IF <<pp, ww>> \in turned
                          THEN <<f[ScenarioSchedule[pp][ww][2] - 1] + 1,
                                 f[ScenarioSchedule[pp][ww][1] - 1] + 1>>
                          ELSE <<f[ScenarioSchedule[pp][ww][1] - 1] + 1,
                                 f[ScenarioSchedule[pp][ww][2] - 1] + 1>>]]
    /\ pc' = "scen_input"
    /\ UNCHANGED <<batchVars, buildVars, mipVars, solveVars, optVars, amkVars, lexVars, circleVars, satVars, result>>

\* the one-hot assignment of the schedule, sat_model_ha.py lines 29-36
ScenEncode ==
    /\ pc = "scen_input"
    /\ HomeHA' = {<<sl[1] - 1, sl[2] - 1, solution[sl[1]][sl[2]][1] - 1>> : sl \in Slots(solution)}
    /\ AwayHA' = {<<sl[1] - 1, sl[2] - 1, solution[sl[1]][sl[2]][2] - 1>> : sl \in Slots(solution)}
    /\ pc' = "scen_encoded"
    /\ UNCHANGED <<batchVars, buildVars, mipVars, solveVars, chkVars, optVars, amkVars, lexVars, circleVars, use_sb, optimization,
                   grid, pos, swap, flipped, schedule>>

\* solution_checker.py lines 60-94
ScenCheck ==
    /\ pc = "scen_encoded"
    /\ IF fatal_errors_raises(solution)
       THEN pc' = "value_error" /\ result' = result
       ELSE IF Len(fatal_errors(solution)) = 0
               /\ get_periods_raises(solution, MaxOf(get_teams(solution)) - 1)
            THEN pc' = "type_error" /\ result' = result
            ELSE pc' = "scen_done" /\ result' = check_solution(solution)
    /\ UNCHANGED <<batchVars, buildVars, mipVars, solveVars, optVars, amkVars, lexVars, circleVars, satVars, solution>>

NextScenario == ScenInput \/ ScenEncode \/ ScenCheck

SpecScenario == InitScenario /\ [][NextScenario]_vars

RECURSIVE SmallSets(_, _)
SmallSets(S, c) ==
    IF c <= 0 THEN {{}}
    ELSE SmallSets(S, c - 1) \cup {T \cup {x} : T \in SmallSets(S, c - 1), x \in S}

\* the slots whose match, under the placement ps, has an even gap between its teams
EvenGap(nn, ps) ==
    {<<v[1], v[2]>> : v \in {x \in ps : (HomeAt(nn, x[1], x[3]) - AwayAt(nn, x[1], x[3])) % 2 = 0}}

SwapFamily(nn, ps) ==
    {(S \ B) \cup (B \ S) : S \in SmallSets(Weeks(nn) \X Periods(nn), MaxSwaps),
                            B \in {{}, EvenGap(nn, ps)}}

\* the placements of the exploration: the first two weeks in table order, or,
\* under symmetry breaking (which orders the weeks), the first week in table
\* order as lines 88-92 force it
OptPlacements(nn, sb) ==
    IF sb
    THEN {f \in [Weeks(nn) -> Perms(nn \div 2)] : \A pp \in Periods(nn) : f[0][pp] = pp}
    ELSE Placements(nn)

\* line 44: the models <<pos, swap>> of base_assertions among the assignments
\* the back end looks at; the constraints on pos alone are tried first, they
\* are the constraints of the decision build
BaseModels(nn, sb) ==
    UNION {{<<ps, sw>> : sw \in {x \in SwapFamily(nn, ps) : RRHolds(nn, TRUE, sb, ps, x)}} :
              ps \in {q \in {PosOf(nn, f) : f \in OptPlacements(nn, sb)} :
                         RRHolds(nn, FALSE, sb, q, {})}}

\* a variant of LowerHome: one more home game required
LowerHome_mut(W, B) == ((W - B) + 2) \div 2

\* line 58: ceil((W - mid) / 2)
LowerHome(W, B) == ((W - B) + 1) \div 2

\* a variant of UpperHome: rounded up
UpperHome_mut(W, B) == ((W + B) + 1) \div 2

\* line 59: floor((W + mid) / 2)
UpperHome(W, B) == (W + B) \div 2

\* lines 66-70: the per-team bounds added for the candidate B hold in assignment m
BoundsHold(nn, m, B) ==
    \A t \in 1 .. nn :
        /\ AMKSat([ww \in Weeks(nn) |-> RRHomeLiteral(nn, m[1], m[2], t, ww)],
                  UpperHome(nn - 1, B))
        /\ AMKSat([ww \in Weeks(nn) |-> ~RRHomeLiteral(nn, m[1], m[2], t, ww)],
                  (nn - 1) - LowerHome(nn - 1, B))

\* a variant of AfterUnsat: one candidate skipped
AfterUnsat_mut(m) == m + 2

\* line 78: lo after an unsat answer
AfterUnsat(m) == m + 1

InitOpt ==
    /\ pc = "opt_call"
    /\ n \in 0 .. MaxTeams
    /\ w = 0 /\ p = 0 /\ Home = <<>> /\ Away = <<>>
    /\ use_sb \in BOOLEAN
    /\ optimization = FALSE /\ grid = <<>> /\ pos = {} /\ swap = {}
    /\ HomeHA = {} /\ AwayHA = {} /\ flipped = FALSE /\ schedule = <<>>
    /\ model = "rr" /\ timeout = MaxTimeout /\ answer = "not asked" /\ record = <<>>
    /\ IdleAMK /\ IdleLex /\ IdleChk /\ IdleOpt /\ IdleBuild /\ IdleBatch /\ IdleMip

\* sat_model_rr.py line 28, from solve_sat_instance.py lines 229-233
OptAssertFails ==
    /\ pc = "opt_call"
    /\ ~(n % 2 = 0 /\ n >= 2)
    /\ pc' = "assertion_error"
    /\ UNCHANGED <<batchVars, buildVars, mipVars, solveVars, chkVars, optVars, amkVars, lexVars, circleVars, satVars>>

\* solve_sat_instance.py lines 229-237 and optimise_rr lines 40-48
OptStart ==
    /\ pc = "opt_call"
    /\ n % 2 = 0 /\ n >= 2
    /\ optimization' = TRUE
    /\ Home' = HomeTable(n)
    /\ Away' = AwayTable(n)
    /\ models' = BaseModels(n, use_sb)
    /\ lo' = 0
    /\ hi' = n - 1
    /\ best_val' = 0 - 1
    /\ best_model' = <<>>
    /\ checks' = 0
    /\ pc' = "opt_loop"
    /\ UNCHANGED <<batchVars, buildVars, mipVars, solveVars, chkVars, amkVars, lexVars, n, w, p, use_sb, grid, pos, swap,
                   HomeHA, AwayHA, flipped, schedule, mid, conclusive>>

\* line 50: the loop condition fails
OptLoopEnds ==
    /\ pc = "opt_loop"
    /\ lo > hi
    /\ pc' = "opt_return"
    /\ UNCHANGED <<batchVars, buildVars, mipVars, solveVars, chkVars, optVars, amkVars, lexVars, circleVars, satVars>>

\* lines 52-55: the budget is exhausted
OptBudgetExhausted ==
    /\ pc = "opt_loop"
    /\ lo <= hi
    /\ conclusive' = FALSE
    /\ pc' = "opt_return"
    /\ UNCHANGED <<batchVars, buildVars, mipVars, solveVars, chkVars, amkVars, lexVars, circleVars, satVars,
                   models, lo, hi, mid, best_val, best_model, checks>>

\* lines 57-72: the query for mid is built and put to the solver
OptQuery ==
    /\ pc = "opt_loop"
    /\ lo <= hi
    /\ mid' = (lo + hi) \div 2
    /\ checks' = checks + 1
    /\ pc' = "opt_check"
    /\ UNCHANGED <<batchVars, buildVars, mipVars, solveVars, chkVars, amkVars, lexVars, circleVars, satVars,
                   models, lo, hi, best_val, best_model, conclusive>>

\* lines 72-76: sat, with any model of the query
OptSat ==
    /\ pc = "opt_check"
    /\ \E m \in models :
          /\ BoundsHold(n, m, mid) = TRUE
          /\ best_model' = m
    /\ best_val' = mid
    /\ hi' = mid - 1
    /\ pc' = "opt_loop"
    /\ UNCHANGED <<batchVars, buildVars, mipVars, solveVars, chkVars, amkVars, lexVars, circleVars, satVars,
                   models, lo, mid, conclusive, checks>>

\* lines 77-78: unsat
OptUnsat ==
    /\ pc = "opt_check"
    /\ (\A m \in models : ~BoundsHold(n, m, mid)) = TRUE
    /\ lo' = AfterUnsat(mid)
    /\ pc' = "opt_loop"
    /\ UNCHANGED <<batchVars, buildVars, mipVars, solveVars, chkVars, amkVars, lexVars, circleVars, satVars,
                   models, hi, mid, best_val, best_model, conclusive, checks>>

\* a variant of OptUnknown: the unknown answer handled as an unsat answer
OptUnknown_mut ==
    /\ pc = "opt_check"
    /\ conclusive' = FALSE
    /\ lo' = AfterUnsat(mid)
    /\ pc' = "opt_return"
    /\ UNCHANGED <<batchVars, buildVars, mipVars, solveVars, chkVars, amkVars, lexVars, circleVars, satVars,
                   models, hi, mid, best_val, best_model, checks>>

\* lines 79-80: unknown
OptUnknown ==
    /\ pc = "opt_check"
    /\ conclusive' = FALSE
    /\ pc' = "opt_return"
    /\ UNCHANGED <<batchVars, buildVars, mipVars, solveVars, chkVars, amkVars, lexVars, circleVars, satVars,
                   models, lo, hi, mid, best_val, best_model, checks>>

\* solve_sat_instance lines 240-254: the record of the optimisation mode;
\* opt_val is -1 for None
opt_record(elapsed, tmo, optimal_, opt_val, solution_) ==
    [time |-> IF solution_ # <<>> THEN elapsed ELSE tmo,
     optimal |-> optimal_,
     obj |-> IF opt_val # 0 - 1 THEN opt_val ELSE "None",
     sol |-> solution_]

\* solve_sat_instance lines 238-254: optimise_rr has returned best_val, best_model
OptReturn ==
    /\ pc = "opt_return"
    /\ IF best_model # <<>>
       THEN IF parse_optimization_raises(best_model[1], n)
            THEN /\ pc' = "runtime_error"
                 /\ UNCHANGED <<schedule, record>>
            ELSE \E sol \in {parse_optimization_output(best_model[1], best_model[2], n,
                                                        Home, Away)} :
                 \E elapsed \in 0 .. timeout :
                    /\ schedule' = sol
                    /\ record' = opt_record(elapsed, timeout, TRUE, best_val, sol)
                    /\ pc' = "opt_returned"
       ELSE /\ schedule' = <<>>
            /\ record' = opt_record(timeout, timeout, FALSE, best_val, <<>>)
            /\ pc' = "opt_returned"
    /\ UNCHANGED <<batchVars, buildVars, mipVars, chkVars, optVars, amkVars, lexVars, circleVars, use_sb,
                   optimization, grid, pos, swap, HomeHA, AwayHA, flipped, model, timeout, answer>>

NextOpt ==
    \/ OptAssertFails \/ OptStart \/ OptLoopEnds \/ OptBudgetExhausted
    \/ OptQuery \/ OptSat \/ OptUnsat \/ OptUnknown \/ OptReturn

SpecOpt == InitOpt /\ [][NextOpt]_vars

\* the base model with the bounds of candidate B is satisfiable
Feasible(B) == \E m \in models : BoundsHold(n, m, B)

\* C9: if every feasibility check answered sat or unsat, optimise_rr returns
\* the smallest B of 0..W for which the base model with the per-team bounds
\* ceil((W-B)/2) <= homeCount[t] <= floor((W+B)/2) is satisfiable, with a
\* model of the query for that B; it returns None, None if there is no such B.
C9_OptimiseReturnsMinimum ==
    (pc = "opt_return" /\ conclusive) =>
        IF best_val = 0 - 1
        THEN best_model = <<>> /\ \A B \in 0 .. (n - 1) : ~Feasible(B)
        ELSE /\ best_val \in 0 .. (n - 1)
             /\ best_model \in models
             /\ BoundsHold(n, best_model, best_val)
             /\ \A B \in 0 .. (best_val - 1) : ~Feasible(B)

\* a six-team search that ran to its end and found a bound after an unsat answer
C9_Witness ==
    /\ pc = "opt_return" /\ conclusive /\ n = 6
    /\ best_val > 0
    /\ lo > 0

\* C14: an unknown answer or an exhausted budget is never treated as
\* infeasible: lo changes only after an unsat answer to the query for mid, to
\* mid + 1, and the step that ends the search without a conclusive answer
\* returns with lo, hi, best_val and best_model as they were.
C14_InconclusiveIsNotInfeasible ==
    [][/\ lo' # lo =>
            /\ pc = "opt_check"
            /\ \A m \in models : ~BoundsHold(n, m, mid)
            /\ lo' = mid + 1
       /\ (conclusive /\ ~conclusive') =>
            /\ pc' = "opt_return"
            /\ lo' = lo /\ hi' = hi
            /\ best_val' = best_val /\ best_model' = best_model]_vars

\* a six-team search cut short with candidates left, after a sat answer
C14_Witness ==
    /\ pc = "opt_return" /\ ~conclusive /\ n = 6
    /\ best_val >= 0
    /\ lo <= hi

\* home games minus away games of team t in a schedule, as an absolute value
ImbalanceOf(S, t) ==
    LET home == Cardinality({sl \in Slots(S) : S[sl[1]][sl[2]][1] = t})
        away == Cardinality({sl \in Slots(S) : S[sl[1]][sl[2]][2] = t})
    IN IF home >= away THEN home - away ELSE away - home

\* the largest imbalance over the teams 1..nn
MaxImbalance(S, nn) ==
    CHOOSE x \in {ImbalanceOf(S, t) : t \in 1 .. nn} :
        \A y \in {ImbalanceOf(S, t) : t \in 1 .. nn} : y <= x

\* C28: for every even n whose optimisation build of the RR model (with or
\* without the symmetry-breaking constraints) is satisfiable, optimise_rr with
\* all feasibility checks conclusive returns best_val = 1: the bound 0 is
\* infeasible because W = n - 1 is odd (the lower count exceeds the upper
\* count), and the bound 1 is feasible by a choice of the swap bits, also
\* when the swap bits of the first week are forced false.
C28_OptimumIsOne ==
    (pc = "opt_return" /\ conclusive /\ models # {}) =>
        /\ best_val = 1
        /\ LowerHome(n - 1, 0) > UpperHome(n - 1, 0)
        /\ ~Feasible(0)
        /\ Feasible(1)
        /\ BoundsHold(n, best_model, 1)
        /\ MaxImbalance(parse_optimization_output(best_model[1], best_model[2], n, Home, Away), n) = 1

\* a six-team search with the symmetry-breaking constraints that ran to its
\* end: bound 1 reached with no swap in the first week
C28_Witness ==
    /\ pc = "opt_return" /\ conclusive /\ n = 6 /\ use_sb
    /\ best_val = 1
    /\ best_model # <<>>
    /\ best_model[2] # {}
    /\ \A sl \in best_model[2] : sl[1] # 0

\* C26: in optimisation mode, whenever solve_sat_instance returns a non-empty
\* 'sol', the reported 'obj' equals the maximum over all teams of
\* |number of home games - number of away games| on the returned schedule.
C26_ObjIsImbalanceOfSol ==
    (pc = "opt_returned" /\ record.sol # <<>>) =>
        record.obj = MaxImbalance(record.sol, n)

\* C27: in optimisation mode solve_sat_instance reports optimal = True only
\* when the binary search ran to completion (the loop ended with lo > hi after
\* conclusive answers only) and 'obj' is the minimum feasible bound; a search
\* cut short by the budget or by an unknown answer is not reported as optimal.
C27_OptimalOnlyWhenSearchCompleted ==
    (pc = "opt_returned" /\ record.optimal) =>
        /\ conclusive /\ lo > hi
        /\ Feasible(record.obj)
        /\ \A B \in 0 .. (record.obj - 1) : ~Feasible(B)

(***************************************************************************)
(* The weekly home literals H[t][w] of the optimisation build against the  *)
(* decoder: an assignment of pos and swap is drawn (every choice of one    *)
(* index per slot and every set of swaps for n <= MaxFullTeams, the        *)
(* placements and their swap families above that) and decoded.             *)
(***************************************************************************)
HomeInputs(nn) ==
    IF nn <= MaxFullTeams THEN {PosOf(nn, f) : f \in [Weeks(nn) -> [Periods(nn) -> Periods(nn)]]}
    ELSE {PosOf(nn, f) : f \in Placements(nn)}

HomeSwaps(nn, ps) ==
    IF nn <= MaxFullTeams THEN SUBSET (Weeks(nn) \X Periods(nn)) ELSE SwapFamily(nn, ps)

\* sat_model_rr.py lines 28-60 with optimization=True, then a z3 model
HomeInput ==
    /\ pc = "dec_call"
    /\ n % 2 = 0 /\ n >= 2
    /\ Home' = HomeTable(n)
    /\ Away' = AwayTable(n)
    /\ optimization' = TRUE
    /\ \E ps \in HomeInputs(n) : \E sw \in HomeSwaps(n, ps) :
          /\ pos' = ps
          /\ swap' = sw
    /\ pc' = "dec_rr_input"
    /\ UNCHANGED <<batchVars, buildVars, mipVars, solveVars, chkVars, optVars, n, w, p, amkVars, lexVars, use_sb,
                   grid, HomeHA, AwayHA, flipped, schedule>>

NextHome == HomeInput \/ DecDecodeRR

SpecHome == InitDecode /\ [][NextHome]_vars

\* the teams whose weekly home literal is true in week ww
HomeLiterals(ww) == {t \in 1 .. n : RRHomeLiteral(n, pos, swap, t, ww)}

\* C25: in the optimisation build, for every assignment that satisfies the
\* slot and permutation constraints, H[t][w] is true exactly when the
\* schedule decoded by parse_optimization_output has team t as the home team
\* of a match of week w; so exactly n/2 of the literals H[1..n][w] are true
\* in every week.
C25_HomeLiteralMatchesDecoder ==
    (/\ pc = "dec_rr_done" /\ optimization
     /\ RROneIndexPerSlot(n, pos) /\ RRPermutation(n, pos)) =>
        \A ww \in Weeks(n) :
            /\ HomeLiterals(ww) = {schedule[pp + 1][ww + 1][1] : pp \in Periods(n)}
            /\ Cardinality(HomeLiterals(ww)) = n \div 2

\* six teams, with a team of the Away table playing at home after a swap
C25_Witness ==
    /\ pc = "dec_rr_done" /\ optimization /\ n = 6
    /\ RROneIndexPerSlot(n, pos) /\ RRPermutation(n, pos)
    /\ \E v \in swap : \E kk \in Periods(n) :
          /\ <<v[1], v[2], kk>> \in pos
          /\ schedule[v[2] + 1][v[1] + 1][1] = AwayAt(n, v[1], kk)
          /\ AwayAt(n, v[1], kk) \in HomeLiterals(v[1])

(***************************************************************************)
(* The two cardinality constraints optimise_rr adds for one team, on their *)
(* own: the W literals H[t][*] take the values of bool_vars, the candidate *)
(* bound is mid, and the solver answers whether the clauses of the two     *)
(* at_most_k calls can be satisfied together with those values (the two    *)
(* calls get different names, so their auxiliaries are disjoint).          *)
(***************************************************************************)
InitBounds ==
    /\ pc = "bnd_call"
    /\ n \in {x \in 2 .. MaxBoundTeams : x % 2 = 0}
    /\ bool_vars \in [List0(n - 1) -> BOOLEAN]
    /\ k = 0 /\ constraints = <<>> /\ aux = {}
    /\ w = 0 /\ p = 0 /\ Home = <<>> /\ Away = <<>>
    /\ models = {} /\ lo = 0 /\ hi = 0 /\ mid \in 0 .. (n - 1)
    /\ best_val = 0 - 1 /\ best_model = <<>> /\ conclusive = TRUE /\ checks = 0
    /\ IdleLex /\ IdleSat /\ IdleChk /\ IdleBuild /\ IdleBatch /\ IdleMip /\ IdleSolve

\* lines 58-59 and 66-70: the clauses of the two calls, for the team's literals
BoundsEncode ==
    /\ pc = "bnd_call"
    /\ constraints' = <<at_most_k(n - 1, UpperHome(n - 1, mid)),
                        at_most_k(n - 1, (n - 1) - LowerHome(n - 1, mid))>>
    /\ pc' = "bnd_query"
    /\ UNCHANGED <<batchVars, buildVars, mipVars, solveVars, chkVars, optVars, bool_vars, k, aux, lexVars,
                   circleVars, satVars>>

\* line 72, for the values the literals have
BoundsCheck ==
    /\ pc = "bnd_query"
    /\ \E neg \in {[i \in DOMAIN bool_vars |-> ~bool_vars[i]]} :
          answer' = IF /\ ChainExtendable(constraints[1], bool_vars, n - 1,
                                          UpperHome(n - 1, mid))
                       /\ ChainExtendable(constraints[2], neg, n - 1,
                                          (n - 1) - LowerHome(n - 1, mid))
                    THEN "sat" ELSE "unsat"
    /\ pc' = "bnd_answered"
    /\ UNCHANGED <<batchVars, buildVars, mipVars, model, timeout, record, chkVars, optVars, amkVars, lexVars,
                   circleVars, satVars>>

NextBounds == BoundsEncode \/ BoundsCheck

SpecBounds == InitBounds /\ [][NextBounds]_vars

\* |x|
AbsVal(x) == IF x < 0 THEN 0 - x ELSE x

\* C24: for every candidate bound B in 0..W and every team t, the clauses of
\* at_most_k(H[t], floor((W+B)/2)) and at_most_k(negations of H[t],
\* W - ceil((W-B)/2)) are jointly satisfiable for an assignment of the W
\* literals H[t][*] exactly when the number h of true literals satisfies
\* |2h - W| <= B, which is |home games - away games| <= B for team t.
C24_BoundsMeanImbalance ==
    pc = "bnd_answered" =>
        (answer = "sat" <=> AbsVal(2 * CountTrue(bool_vars) - (n - 1)) <= mid)

\* eight teams, five home games out of seven, bound 3: the built counters hold
C24_Witness ==
    /\ pc = "bnd_answered" /\ n = 8 /\ mid = 3
    /\ CountTrue(bool_vars) = 5
    /\ Len(constraints[1]) > 0 /\ Len(constraints[2]) > 0
    /\ answer = "sat"

(***************************************************************************)
(* The loop of optimise_rr on its own: the same steps, with the answer of  *)
(* s.check() left open (sat, unsat or unknown, whatever the query), so     *)
(* that every sequence of answers is explored.  The loop reads n, lo, hi   *)
(* and the answer only.                                                    *)
(***************************************************************************)
InitSearch ==
    /\ pc = "opt_call"
    /\ n \in 0 .. MaxSearchTeams
    /\ w = 0 /\ p = 0 /\ Home = <<>> /\ Away = <<>>
    /\ IdleAMK /\ IdleLex /\ IdleSat /\ IdleChk /\ IdleOpt /\ IdleBuild /\ IdleBatch /\ IdleMip /\ IdleSolve

\* lines 43-48
SearchStart ==
    /\ pc = "opt_call"
    /\ n % 2 = 0 /\ n >= 2
    /\ optimization' = TRUE
    /\ lo' = 0
    /\ hi' = n - 1
    /\ best_val' = 0 - 1
    /\ best_model' = <<>>
    /\ checks' = 0
    /\ pc' = "opt_loop"
    /\ UNCHANGED <<batchVars, buildVars, mipVars, solveVars, chkVars, amkVars, lexVars, circleVars, use_sb, grid,
                   pos, swap, HomeHA, AwayHA, flipped, schedule, models, mid, conclusive>>

\* a variant of SearchSat: the candidate mid is kept in the interval
SearchSat_mut ==
    /\ pc = "opt_check"
    /\ best_val' = mid
    /\ best_model' = <<{}, {}>>
    /\ hi' = mid
    /\ pc' = "opt_loop"
    /\ UNCHANGED <<batchVars, buildVars, mipVars, solveVars, chkVars, amkVars, lexVars, circleVars, satVars,
                   models, lo, mid, conclusive, checks>>

\* lines 73-76: the answer is sat; the model is not read by the loop
SearchSat ==
    /\ pc = "opt_check"
    /\ best_val' = mid
    /\ best_model' = <<{}, {}>>
    /\ hi' = mid - 1
    /\ pc' = "opt_loop"
    /\ UNCHANGED <<batchVars, buildVars, mipVars, solveVars, chkVars, amkVars, lexVars, circleVars, satVars,
                   models, lo, mid, conclusive, checks>>

\* lines 77-78: the answer is unsat
SearchUnsat ==
    /\ pc = "opt_check"
    /\ lo' = AfterUnsat(mid)
    /\ pc' = "opt_loop"
    /\ UNCHANGED <<batchVars, buildVars, mipVars, solveVars, chkVars, amkVars, lexVars, circleVars, satVars,
                   models, hi, mid, best_val, best_model, conclusive, checks>>

NextSearch ==
    \/ OptAssertFails \/ SearchStart \/ OptLoopEnds \/ OptBudgetExhausted
    \/ OptQuery \/ SearchSat \/ SearchUnsat \/ OptUnknown

SpecSearch == InitSearch /\ [][NextSearch]_vars

\* the loop is sequential code: it takes its next step as long as it has one
SpecSearchLive == SpecSearch /\ WF_vars(NextSearch)

\* floor(log2(x)) for x >= 1
RECURSIVE Log2Floor(_)
Log2Floor(x) == IF x <= 1 THEN 0 ELSE 1 + Log2Floor(x \div 2)

\* C23: the search loop of optimise_rr terminates.  0 <= lo and hi <= W hold
\* throughout, and lo <= mid <= hi when a check is made; an iteration with a
\* conclusive answer strictly shrinks the interval (sat: hi = mid - 1, unsat:
\* lo = mid + 1), every other iteration leaves the loop; at most
\* floor(log2(W + 1)) + 1 checks are made, and the call ends.
C23_SearchTerminates ==
    /\ [](pc \in {"opt_loop", "opt_check", "opt_return"} =>
             (/\ 0 <= lo /\ hi <= n - 1
              /\ (pc = "opt_check" => (lo <= mid /\ mid <= hi))
              /\ checks <= Log2Floor(n) + 1))
    /\ [][/\ (pc = "opt_check" /\ pc' = "opt_loop") =>
               /\ hi' - lo' < hi - lo
               /\ \/ hi' = mid - 1 /\ lo' = lo
                  \/ lo' = mid + 1 /\ hi' = hi
          /\ (pc = "opt_check" /\ pc' # "opt_loop") => pc' = "opt_return"
          /\ (pc = "opt_loop" /\ pc' # "opt_check") => pc' = "opt_return"]_vars
    /\ <>(pc \in {"opt_return", "assertion_error"})

\* a sixteen-team search that used all of its five checks
C23_Witness ==
    /\ pc = "opt_return" /\ conclusive /\ n = 16
    /\ checks = 5
    /\ lo > hi

(***************************************************************************)
(* solve_sat_instance.py: solve_sat_instance in decision mode.  The back   *)
(* end answers True with a model, False, or None when the timer interrupts *)
(* it.  A model is looked for among the placements of the circle-method    *)
(* matches; the answer False is explored for the RR build, for which it is *)
(* decided over every assignment that gives a permutation per week.        *)
(***************************************************************************)
\* lines 295-304: the record returned when model_values is None
unsat_record(tmo) == [time |-> tmo, optimal |-> FALSE, obj |-> "None", sol |-> <<>>]

\* lines 315-322: the record returned with a parsed solution
sat_record(elapsed, parsed_solution) ==
    [time |-> elapsed, optimal |-> TRUE, obj |-> "None", sol |-> parsed_solution]

InitSolve ==
    /\ pc = "solve_call"
    /\ n \in 0 .. MaxTeams
    /\ w = 0 /\ p = 0 /\ Home = <<>> /\ Away = <<>>
    /\ use_sb \in BOOLEAN
    /\ optimization = FALSE /\ grid = <<>> /\ pos = {} /\ swap = {}
    /\ HomeHA = {} /\ AwayHA = {} /\ flipped = FALSE /\ schedule = <<>>
    /\ model \in {"ha", "rr", "mip"}
    /\ timeout \in 1 .. MaxTimeout
    /\ answer = "not asked"
    /\ record = <<>>
    /\ IdleAMK /\ IdleLex /\ IdleChk /\ IdleOpt /\ IdleBuild /\ IdleBatch /\ IdleMip

\* lines 269-270
SolveUnknownModel ==
    /\ pc = "solve_call"
    /\ model \notin {"ha", "rr"}
    /\ pc' = "value_error"
    /\ UNCHANGED <<batchVars, buildVars, mipVars, solveVars, chkVars, optVars, amkVars, lexVars, circleVars, satVars>>

\* sat_model_ha.py line 20, sat_model_rr.py line 28
SolveAssertFails ==
    /\ pc = "solve_call"
    /\ model \in {"ha", "rr"}
    /\ ~(n % 2 = 0 /\ n >= 2)
    /\ pc' = "assertion_error"
    /\ UNCHANGED <<batchVars, buildVars, mipVars, solveVars, chkVars, optVars, amkVars, lexVars, circleVars, satVars>>

\* lines 257-273: the model is built and converted
SolveBuild ==
    /\ pc = "solve_call"
    /\ model \in {"ha", "rr"}
    /\ n % 2 = 0 /\ n >= 2
    /\ Home' = IF model = "rr" THEN HomeTable(n) ELSE <<>>
    /\ Away' = IF model = "rr" THEN AwayTable(n) ELSE <<>>
    /\ pc' = "solve_built"
    /\ UNCHANGED <<batchVars, buildVars, mipVars, solveVars, chkVars, optVars, amkVars, lexVars, n, w, p, satVars>>

\* lines 287-288: solve_limited returns True, get_model() is a model of the build
SolveSat ==
    /\ pc = "solve_built"
    /\ \E perm \in Placements(n) :
          IF model = "rr"
          THEN /\ RRHolds(n, FALSE, use_sb, PosOf(n, perm), {}) = TRUE
               /\ pos' = PosOf(n, perm)
               /\ HomeHA' = HomeHA /\ AwayHA' = AwayHA
          ELSE \E HT \in {{<<pp, ww, HomeAt(n, ww, perm[ww][pp]) - 1>> :
                               pp \in Periods(n), ww \in Weeks(n)}} :
               \E AT \in {{<<pp, ww, AwayAt(n, ww, perm[ww][pp]) - 1>> :
                               pp \in Periods(n), ww \in Weeks(n)}} :
                  /\ HAHolds(n, use_sb, HT, AT) = TRUE
                  /\ HomeHA' = HT /\ AwayHA' = AT
                  /\ pos' = pos
    /\ answer' = "True"
    /\ pc' = "solve_answered"
    /\ UNCHANGED <<batchVars, buildVars, mipVars, chkVars, optVars, amkVars, lexVars, circleVars, use_sb, optimization, grid,
                   swap, flipped, schedule, model, timeout, record>>

\* lines 287-288: solve_limited returns False, the build has no model
SolveUnsat ==
    /\ pc = "solve_built"
    /\ model = "rr"
    /\ ~RRBuildSat[n][use_sb]
    /\ answer' = "False"
    /\ pc' = "solve_answered"
    /\ UNCHANGED <<batchVars, buildVars, mipVars, chkVars, optVars, amkVars, lexVars, circleVars, satVars,
                   model, timeout, record>>

\* lines 278-288: the timer interrupts the back end, solve_limited returns None
SolveInterrupted ==
    /\ pc = "solve_built"
    /\ answer' = "None"
    /\ pc' = "solve_answered"
    /\ UNCHANGED <<batchVars, buildVars, mipVars, chkVars, optVars, amkVars, lexVars, circleVars, satVars,
                   model, timeout, record>>

\* lines 288, 293-304: model_values is None when the answer is False or None
SolveReturnEmpty ==
    /\ pc = "solve_answered"
    /\ answer # "True"
    /\ record' = unsat_record(timeout)
    /\ pc' = "solve_returned"
    /\ UNCHANGED <<batchVars, buildVars, mipVars, chkVars, optVars, amkVars, lexVars, circleVars, satVars,
                   model, timeout, answer>>

\* lines 306-322: the model is decoded; elapsed_time is at most the timeout
SolveReturnParsed ==
    /\ pc = "solve_answered"
    /\ answer = "True"
    /\ \E varmap \in {IF model = "rr" THEN varmap_rr(n) ELSE varmap_ha(n)} :
       \E model_values \in {get_model(varmap,
                               IF model = "rr"
                               THEN {PosName(v[1], v[2], v[3]) : v \in pos}
                               ELSE {HName(v[1], v[2], v[3]) : v \in HomeHA}
                                        \cup {AName(v[1], v[2], v[3]) : v \in AwayHA})} :
          IF parse_decision_raises(model_values, model, n, varmap)
          THEN pc' = "runtime_error" /\ record' = record
          ELSE /\ \E elapsed \in 0 .. timeout :
                     record' = sat_record(elapsed,
                                   parse_decision_output(model_values, model, n, varmap,
                                                         Home, Away))
               /\ pc' = "solve_returned"
    /\ UNCHANGED <<batchVars, buildVars, mipVars, chkVars, optVars, amkVars, lexVars, circleVars, satVars,
                   model, timeout, answer>>

NextSolve ==
    \/ SolveUnknownModel \/ SolveAssertFails \/ SolveBuild
    \/ SolveSat \/ SolveUnsat \/ SolveInterrupted
    \/ SolveReturnEmpty \/ SolveReturnParsed

SpecSolve == InitSolve /\ [][NextSolve]_vars

\* C15: in decision mode a timed-out (interrupted) solve stays distinguishable
\* from a proven-unsatisfiable one: the record returned after an interrupted
\* solve is not the record the same call returns when the back end proves the
\* instance unsatisfiable.
C15_TimeoutDistinctFromUnsat ==
    (pc = "solve_returned" /\ answer = "None") => record # unsat_record(timeout)

(***************************************************************************)
(* MIP/mip_model_ha.py and MIP/solve_mip_instance.py, HA family.  Home and *)
(* Away are Python dicts whose keys are the tuples (p, w); a dict is a     *)
(* function and a key the sequence of its components, so that the key p   *)
(* of Home[p] is <<p>> and the key (p, w) is <<p, w>>.  The engine looks   *)
(* for a solution among the placements of the circle-method matches, with  *)
(* the larger or the smaller team of every match at home.                  *)
(***************************************************************************)
\* mip_model_ha.py lines 21-26
Pairs(nn, sb) ==
    IF sb THEN {x \in (1 .. nn) \X (1 .. nn) : x[1] < x[2]}
    ELSE {x \in (1 .. nn) \X (1 .. nn) : x[1] # x[2]}

\* lines 50-53, 62-68: the y[(i, j, w, p)] equal to 1: one per slot, linked to Home and Away
YOnes(HomeD, AwayD) == {<<HomeD[s], AwayD[s], s[2], s[1]>> : s \in DOMAIN HomeD}

\* lines 58-108: the constraints added to the model
MipHolds(nn, sb, HomeD, AwayD) ==
    LET y == YOnes(HomeD, AwayD)
    IN /\ \A v \in y : <<v[1], v[2]>> \in Pairs(nn, sb)
       /\ IF sb
          THEN \A pr \in Pairs(nn, sb) :
                  Cardinality({v \in y : v[1] = pr[1] /\ v[2] = pr[2]}) = 1
          ELSE \A i \in 1 .. nn : \A j \in (i + 1) .. nn :
                  Cardinality({v \in y : v[1] = i /\ v[2] = j})
                      + Cardinality({v \in y : v[1] = j /\ v[2] = i}) = 1
       /\ \A t \in 1 .. nn : \A ww \in 1 .. (nn - 1) :
             Cardinality({v \in y : v[3] = ww /\ (v[1] = t \/ v[2] = t)}) = 1
       /\ \A t \in 1 .. nn : \A pp \in 1 .. (nn \div 2) :
             Cardinality({v \in y : v[4] = pp /\ (v[1] = t \/ v[2] = t)}) <= 2
       /\ sb => /\ \A s \in DOMAIN HomeD : HomeD[s] + 1 <= AwayD[s]
                /\ \A pp \in 1 .. (nn \div 2) : <<2 * pp - 1, 2 * pp, 1, pp>> \in y

\* solve_mip_instance.py lines 49-60, 77-79: Home[p][w] or Away[p][w] raises KeyError
parse_mip_ha_raises(HomeD, AwayD, nn) ==
    \E p_idx \in List0(nn \div 2) : \E w_idx \in List0(nn - 1) :
        \/ <<p_idx + 1>> \notin DOMAIN HomeD
        \/ <<p_idx + 1>> \notin DOMAIN AwayD

\* lines 23-81 for model_type 'ha': None, or the schedule
parse_mip_solution(st, nn, HomeD, AwayD) ==
    IF st # "Optimal" THEN [type |-> "None", list |-> <<>>]
    ELSE IF parse_mip_ha_raises(HomeD, AwayD, nn) THEN [type |-> "None", list |-> <<>>]
    ELSE [type |-> "list",
          list |-> [pp \in 1 .. (nn \div 2) |-> [ww \in 1 .. (nn - 1) |->
                       <<HomeD[<<pp>>][<<ww>>], AwayD[<<pp>>][<<ww>>]>>]]]

\* lines 122-136 without optimisation: the returned record
mip_record(st, solution_, elapsed, tmo) ==
    LET final_time == IF solution_.type # "None" THEN elapsed ELSE tmo
    IN [time |-> final_time,
        optimal |-> (st = "Optimal" /\ final_time < tmo),
        obj |-> "None",
        sol |-> IF solution_.type # "None" THEN solution_.list ELSE <<>>]

InitMip ==
    /\ pc = "mip_call"
    /\ n \in 0 .. MaxTeams
    /\ w = 0 /\ p = 0 /\ Home = <<>> /\ Away = <<>>
    /\ use_sb \in BOOLEAN
    /\ optimization = FALSE /\ grid = <<>> /\ pos = {} /\ swap = {}
    /\ HomeHA = {} /\ AwayHA = {} /\ flipped = FALSE /\ schedule = <<>>
    /\ model = "ha"
    /\ timeout \in 1 .. MaxTimeout
    /\ answer = "not asked"
    /\ record = <<>>
    /\ IdleAMK /\ IdleLex /\ IdleChk /\ IdleOpt /\ IdleBuild /\ IdleBatch /\ IdleMip

\* mip_model_ha.py line 7
MipAssertFails ==
    /\ pc = "mip_call"
    /\ ~(n % 2 = 0 /\ n >= 2)
    /\ pc' = "assertion_error"
    /\ UNCHANGED <<batchVars, buildVars, mipVars, solveVars, chkVars, optVars, amkVars, lexVars, circleVars, satVars>>

\* solve_mip_instance.py lines 98-100, mip_model_ha.py lines 7-142
MipBuild ==
    /\ pc = "mip_call"
    /\ n % 2 = 0 /\ n >= 2
    /\ status' = "Not Solved"
    /\ pc' = "mip_built"
    /\ UNCHANGED <<batchVars, buildVars, HomeVal, AwayVal, parsed, solveVars, chkVars, optVars, amkVars, lexVars,
                   circleVars, satVars>>

\* line 117: the engine finds a solution, the variables get their values
MipSolved ==
    /\ pc = "mip_built"
    /\ \E perm \in [Weeks(n) -> Perms(n \div 2)] : \E larger \in BOOLEAN :
       \E HD \in {[s \in (1 .. (n \div 2)) \X (1 .. (n - 1)) |->
                      IF larger THEN HomeAt(n, s[2] - 1, perm[s[2] - 1][s[1] - 1])
                      ELSE AwayAt(n, s[2] - 1, perm[s[2] - 1][s[1] - 1])]} :
       \E AD \in {[s \in (1 .. (n \div 2)) \X (1 .. (n - 1)) |->
                      IF larger THEN AwayAt(n, s[2] - 1, perm[s[2] - 1][s[1] - 1])
                      ELSE HomeAt(n, s[2] - 1, perm[s[2] - 1][s[1] - 1])]} :
          /\ MipHolds(n, use_sb, HD, AD) = TRUE
          /\ HomeVal' = HD
          /\ AwayVal' = AD
    /\ status' = "Optimal"
    /\ pc' = "mip_solved"
    /\ UNCHANGED <<batchVars, buildVars, parsed, solveVars, chkVars, optVars, amkVars, lexVars, circleVars, satVars>>

\* line 117: the time limit passes without a solution
MipTimeLimit ==
    /\ pc = "mip_built"
    /\ pc' = "mip_solved"
    /\ UNCHANGED <<batchVars, buildVars, mipVars, solveVars, chkVars, optVars, amkVars, lexVars, circleVars, satVars>>

\* lines 121-136
MipReturn ==
    /\ pc = "mip_solved"
    /\ parsed' = parse_mip_solution(status, n, HomeVal, AwayVal)
    /\ \E elapsed \in 0 .. timeout :
          record' = mip_record(status, parse_mip_solution(status, n, HomeVal, AwayVal),
                               elapsed, timeout)
    /\ pc' = "mip_returned"
    /\ UNCHANGED <<batchVars, buildVars, status, HomeVal, AwayVal, model, timeout, answer, chkVars, optVars, amkVars,
                   lexVars, circleVars, satVars>>

NextMip == MipAssertFails \/ MipBuild \/ MipSolved \/ MipTimeLimit \/ MipReturn

SpecMip == InitMip /\ [][NextMip]_vars

\* C20: when the MIP HA model has status optimal, _parse_mip_solution returns
\* the full schedule, schedule[p-1][w-1] = [value of Home at (p, w), value of
\* Away at (p, w)] for every period p and week w; it does not return None, and
\* solve_mip_instance does not report an empty 'sol' for the solved instance.
C20_MipHaSolutionParsed ==
    (pc = "mip_returned" /\ status = "Optimal") =>
        /\ parsed.type = "list"
        /\ DOMAIN parsed.list = 1 .. (n \div 2)
        /\ \A pp \in 1 .. (n \div 2) : \A ww \in 1 .. (n - 1) :
              parsed.list[pp][ww] = <<HomeVal[<<pp, ww>>], AwayVal[<<pp, ww>>]>>
        /\ record.sol # <<>>

(***************************************************************************)
(* The first statements of the six model builders (SATModelHA, SATModelRR, *)
(* SMTModelHA, SMTModelRR .build_solver; MIPModelHA, MIPModelRR            *)
(* .build_model): the assertion on n, the locals W and P, and then the     *)
(* solver object, the tables and the decision variables, in the order of   *)
(* the code.  An object is recorded with the number of weeks and of        *)
(* periods its index ranges run over (0 where it has no such index).       *)
(***************************************************************************)
Builders == {"SATModelHA", "SATModelRR", "SMTModelHA", "SMTModelRR", "MIPModelHA", "MIPModelRR"}

\* the smallest n the builders are called with
MinTeams == 0 - 2

\* a variant of build_assert: the parity of n is not tested
build_assert_mut(nn) == nn >= 2

\* assert n % 2 == 0 and n >= 2
build_assert(nn) == nn % 2 = 0 /\ nn >= 2

Obj(name, ww, pp) == [name |-> name, weeks |-> ww, periods |-> pp]

\* what a builder creates after W and P, up to its last decision variable
BuildPlan(b, opt, W_, P_) ==
    CASE b = "SATModelHA" ->
            <<Obj("solver", 0, 0), Obj("Home", W_, P_), Obj("Away", W_, P_)>>
      [] b = "SATModelRR" ->
            <<Obj("solver", 0, 0), Obj("Home", W_, P_), Obj("Away", W_, P_), Obj("pos", W_, P_)>>
            \o (IF opt THEN <<Obj("swap", W_, P_)>> ELSE <<>>)
      [] b = "SMTModelHA" ->
            <<Obj("solver", 0, 0), Obj("Home", W_, P_), Obj("Away", W_, P_)>>
      [] b = "SMTModelRR" ->
            <<Obj("solver", 0, 0), Obj("A", W_, P_), Obj("B", W_, P_), Obj("pos", W_, P_)>>
            \o (IF opt THEN <<Obj("swap", W_, P_)>> ELSE <<>>)
      [] b = "MIPModelHA" ->
            <<Obj("Weeks", W_, 0), Obj("Periods", 0, P_), Obj("Home", W_, P_), Obj("Away", W_, P_),
              Obj("model", 0, 0), Obj("y", W_, P_)>>
      [] b = "MIPModelRR" ->
            <<Obj("Weeks", W_, 0), Obj("Periods", 0, P_), Obj("Home", W_, P_), Obj("Away", W_, P_),
              Obj("model", 0, 0), Obj("pos", W_, P_)>>
            \o (IF opt THEN <<Obj("swap", W_, P_)>> ELSE <<>>)

InitBuild ==
    /\ pc = "build_call"
    /\ builder \in Builders
    /\ n \in MinTeams .. MaxTeams
    /\ optimization \in (IF builder \in {"SATModelRR", "SMTModelRR", "MIPModelRR"}
                         THEN BOOLEAN ELSE {FALSE})
    /\ dims = <<>> /\ made = <<>>
    /\ w = 0 /\ p = 0 /\ Home = <<>> /\ Away = <<>>
    /\ use_sb = FALSE /\ pos = {} /\ swap = {} /\ HomeHA = {} /\ AwayHA = {}
    /\ flipped = FALSE /\ grid = <<>> /\ schedule = <<>>
    /\ IdleAMK /\ IdleLex /\ IdleChk /\ IdleOpt /\ IdleMip /\ IdleSolve /\ IdleBatch

\* the assertion fails: nothing after it runs
BuildAssertFails ==
    /\ pc = "build_call"
    /\ ~build_assert(n)
    /\ pc' = "assertion_error"
    /\ UNCHANGED <<batchVars, buildVars, mipVars, solveVars, chkVars, optVars, amkVars, lexVars, circleVars,
                   satVars>>

\* W = n - 1; P = n // 2
BuildDims ==
    /\ pc = "build_call"
    /\ build_assert(n)
    /\ dims' = [W |-> n - 1, P |-> n \div 2]
    /\ pc' = "build_dims"
    /\ UNCHANGED <<batchVars, builder, made, mipVars, solveVars, chkVars, optVars, amkVars, lexVars,
                   circleVars, satVars>>

\* the next object of the builder is created
BuildCreate ==
    /\ pc = "build_dims"
    /\ \E plan \in {BuildPlan(builder, optimization, dims.W, dims.P)} :
          /\ Len(made) < Len(plan)
          /\ made' = Append(made, plan[Len(made) + 1])
          /\ pc' = IF Len(made) + 1 = Len(plan) THEN "build_vars" ELSE pc
    /\ UNCHANGED <<batchVars, builder, dims, mipVars, solveVars, chkVars, optVars, amkVars, lexVars,
                   circleVars, satVars>>

NextBuild == BuildAssertFails \/ BuildDims \/ BuildCreate

SpecBuild == InitBuild /\ [][NextBuild]_vars

\* C21: every model builder fails for every odd n and every n < 2 before any
\* solver object, table or decision variable is created (and before W and P
\* are assigned), and for every even n >= 2 it uses exactly n - 1 weeks and
\* n / 2 periods: W = n - 1, 2 * P = n, and every object it creates is indexed
\* over W weeks and P periods.
C21_BuildersRejectBadN ==
    /\ (n % 2 # 0 \/ n < 2) => /\ pc \in {"build_call", "assertion_error"}
                               /\ dims = <<>>
                               /\ made = <<>>
    /\ pc = "assertion_error" => (n % 2 # 0 \/ n < 2)
    /\ pc \in {"build_dims", "build_vars"} =>
          /\ dims.W = n - 1
          /\ 2 * dims.P = n
          /\ \A i \in DOMAIN made : /\ made[i].weeks \in {0, n - 1}
                                    /\ 2 * made[i].periods \in {0, n}
    /\ pc = "build_vars" =>
          \E i \in DOMAIN made : made[i].weeks = n - 1 /\ 2 * made[i].periods = n

\* an odd instance refused by the SMT RR builder with nothing created
C21_Witness ==
    /\ pc = "assertion_error" /\ builder = "SMTModelRR" /\ n = 5
    /\ dims = <<>> /\ made = <<>>

(***************************************************************************)
(* The two decision builds on every assignment of a small instance.  The   *)
(* back end's search is the choice, week by week, of the variables set     *)
(* true: for SATModelHA a home and an away team for each period of the     *)
(* week such that every team is chosen once (any other choice breaks       *)
(* exactly_one of lines 47-48 or of line 74), for SATModelRR one match     *)
(* index per period, a permutation (any other choice breaks lines 66-74).  *)
(***************************************************************************)
\* the choices of one week of the HA build: period -> <<home, away>>, 0-based
WeekColumns(nn) ==
    {c \in [Periods(nn) -> List0(nn) \X List0(nn)] :
        \A t \in List0(nn) :
            Cardinality({pp \in Periods(nn) : c[pp][1] = t})
                + Cardinality({pp \in Periods(nn) : c[pp][2] = t}) = 1}

InitFull ==
    /\ pc = "full_call"
    /\ model \in {"ha", "rr"}
    /\ n \in {x \in 2 .. MaxFullTeams : x % 2 = 0}
    /\ w = 0 /\ p = 0 /\ Home = <<>> /\ Away = <<>>
    /\ timeout = 0 /\ answer = "not asked" /\ record = <<>>
    /\ IdleAMK /\ IdleLex /\ IdleSat /\ IdleChk /\ IdleOpt /\ IdleBuild /\ IdleBatch /\ IdleMip

\* sat_model_ha.py lines 30-37: the Home and Away variables of week w set
FullAssignHA ==
    /\ pc = "full_call"
    /\ model = "ha"
    /\ w < n - 1
    /\ \E c \in WeekColumns(n) :
          /\ HomeHA' = HomeHA \cup {<<pp, w, c[pp][1]>> : pp \in Periods(n)}
          /\ AwayHA' = AwayHA \cup {<<pp, w, c[pp][2]>> : pp \in Periods(n)}
    /\ w' = w + 1
    /\ UNCHANGED <<batchVars, buildVars, mipVars, solveVars, chkVars, optVars, pc, amkVars, lexVars, n, p, Home, Away,
                   use_sb, optimization, grid, pos, swap, flipped, schedule>>

\* sat_model_rr.py lines 51-54: the pos variables of week w set
FullAssignRR ==
    /\ pc = "full_call"
    /\ model = "rr"
    /\ w < n - 1
    /\ \E perm \in Perms(n \div 2) :
          pos' = pos \cup {<<w, pp, perm[pp]>> : pp \in Periods(n)}
    /\ w' = w + 1
    /\ UNCHANGED <<batchVars, buildVars, mipVars, solveVars, chkVars, optVars, pc, amkVars, lexVars, n, p, Home, Away,
                   use_sb, optimization, grid, swap, HomeHA, AwayHA, flipped, schedule>>

\* the constraints of the build, use_symmetry_breaking_constraints = False,
\* on the complete assignment, and the schedule the assignment stands for
FullSolve ==
    /\ pc = "full_call"
    /\ w = n - 1
    /\ IF model = "ha"
       THEN /\ answer' = IF HAHolds(n, FALSE, HomeHA, AwayHA) THEN "sat" ELSE "unsat"
            /\ schedule' = ScheduleOf(n, HomeHA, AwayHA)
       ELSE /\ answer' = IF RRHolds(n, FALSE, FALSE, pos, {}) THEN "sat" ELSE "unsat"
            /\ schedule' = parse_optimization_output(pos, {}, n, HomeTable(n), AwayTable(n))
    /\ pc' = "full_done"
    /\ UNCHANGED <<batchVars, buildVars, mipVars, chkVars, optVars, amkVars, lexVars, circleVars, use_sb,
                   optimization, grid, pos, swap, HomeHA, AwayHA, flipped, model, timeout, record>>

NextFull == FullAssignHA \/ FullAssignRR \/ FullSolve

SpecFull == InitFull /\ [][NextFull]_vars

\* C29: for n = 4 the scheduling problem has no solution: the main
\* constraints of SATModelHA.build_solver(4, False) and the constraints of
\* SATModelRR.build_solver(4, False, False) fail on every assignment, and no
\* 2 x 3 schedule over the teams 1..4 has every pair exactly once, every team
\* once per week and every team at most twice per period.
C29_FourTeamsNoSolution ==
    (pc = "full_done" /\ n = 4) =>
        /\ answer = "unsat"
        /\ ~(/\ PairsExactlyOnce(schedule, 4)
             /\ OncePerWeek(schedule, 4)
             /\ AtMostTwicePerPeriod(schedule, 4))

\* a four-team HA assignment that is a round robin, refused for its periods only
C29_Witness ==
    /\ pc = "full_done" /\ n = 4 /\ model = "ha"
    /\ answer = "unsat"
    /\ PairsExactlyOnce(schedule, 4)
    /\ OncePerWeek(schedule, 4)
    /\ ~AtMostTwicePerPeriod(schedule, 4)

(***************************************************************************)
(* The batch drivers: solve_sat_all.py, solve_smt_all.py, solve_cp_all.py. *)
(* main() is the same loop in the three files but for the handling of an   *)
(* experiment key that the previous results lack.  The result directory is *)
(* the function res: id -> experiment -> record; a file that does not      *)
(* exist is an id outside DOMAIN res.  The solver subprocess is external:  *)
(* it stores a record with a schedule or a record with an empty 'sol' and  *)
(* returns 0, or returns another code without storing anything, or cannot  *)
(* be started.  The line numbers are those of solve_sat_all.py.            *)
(***************************************************************************)
Drivers == {"sat", "smt", "cp"}

\* the keys of EXPERIMENTS_CONFIG / experiments_config that the exploration
\* runs: the first two of each driver (the experiments share nothing but the
\* result file of the instance)
Experiments(d) ==
    CASE d = "sat" -> <<"ha-minisat", "ha-glucose">>
      [] d = "smt" -> <<"ha-z3", "ha-cvc5">>
      [] OTHER -> <<"ha-gecode", "ha-nosymm-gecode">>

ExperimentSet(d) == {Experiments(d)[x] : x \in 1 .. Len(Experiments(d))}

EmptyDict == [x \in {} |-> <<>>]

\* data[key] = val on a dict
Put(f, key, val) == [x \in DOMAIN f \cup {key} |-> IF x = key THEN val ELSE f[x]]

\* the record the drivers store for a skipped experiment
EmptyRecord == [time |-> 300, optimal |-> FALSE, obj |-> "None", sol |-> <<>>]

\* a record with a schedule, as the instance scripts store it
SolvedRecord == [time |-> 0, optimal |-> TRUE, obj |-> "None", sol |-> <<"schedule">>]

\* lines 150-170: how subprocess.run ends: return code 0 after a record with a
\* schedule or with an empty 'sol' was stored, another return code, an exception
SubprocessOutcomes == {"solved", "empty", "error", "exception"}

\* the decimal digits of an id, as character codes
RECURSIVE DigitCodes(_)
DigitCodes(i) == IF i < 10 THEN <<48 + i>> ELSE Append(DigitCodes(i \div 10), 48 + (i % 10))

\* the file name of an instance up to the extension: the digits and the dot
FileName(i) == Append(DigitCodes(i), 46)

\* str.__lt__ on two names: the first differing character decides, a proper
\* prefix is smaller
RECURSIVE PathLess(_, _)
PathLess(a, b) ==
    IF b = <<>> THEN FALSE
    ELSE IF a = <<>> THEN TRUE
    ELSE IF Head(a) # Head(b) THEN Head(a) < Head(b)
    ELSE PathLess(Tail(a), Tail(b))

\* list.sort() on the paths of the instance files
RECURSIVE SortedFiles(_)
SortedFiles(S) ==
    IF S = {} THEN <<>>
    ELSE LET first == CHOOSE x \in S : \A y \in S \ {x} : PathLess(FileName(x), FileName(y))
         IN <<first>> \o SortedFiles(S \ {first})

\* what the result directory may hold of an earlier run: nothing, or a file
\* for the first instance or for the id before it, with any records of the
\* experiments
StaleStores(d, first) ==
    {EmptyDict} \cup
    {Put(EmptyDict, j, f) :
        j \in {first - 1, first} \cap Nat,
        f \in UNION {[T -> {EmptyRecord, SolvedRecord}] : T \in SUBSET ExperimentSet(d)}}

InitBatch ==
    /\ pc = "batch_call"
    /\ driver \in Drivers
    /\ \E first \in (0 .. MaxFirstId) \cup {LexFirstId} :
          /\ instances = first .. (first + MaxInstances - 1)
          /\ res \in StaleStores(driver, first)
    /\ instance_files = <<>>
    /\ instance_id = 0
    /\ prev_instance_data = <<"None">>
    /\ exp_idx = 0
    /\ started = {}
    /\ n = 0 /\ w = 0 /\ p = 0 /\ Home = <<>> /\ Away = <<>>
    /\ IdleAMK /\ IdleLex /\ IdleSat /\ IdleChk /\ IdleOpt /\ IdleBuild /\ IdleMip /\ IdleSolve

\* lines 65-74: glob and sort
BatchSort ==
    /\ pc = "batch_call"
    /\ instance_files' = SortedFiles(instances)
    /\ pc' = "batch_loop"
    /\ UNCHANGED <<buildVars, mipVars, solveVars, chkVars, optVars, amkVars, lexVars, circleVars, satVars,
                   driver, instances, instance_id, prev_instance_data, exp_idx, res, started>>

\* lines 77-97: the next instance, and the results of the instance before it
BatchNextInstance ==
    /\ pc = "batch_loop"
    /\ instance_files # <<>>
    /\ instance_id' = Head(instance_files)
    /\ instance_files' = Tail(instance_files)
    /\ exp_idx' = 0
    /\ IF Head(instance_files) - 1 > 0
       THEN IF Head(instance_files) - 1 \in DOMAIN res
            THEN /\ prev_instance_data' = <<"dict", res[Head(instance_files) - 1]>>
                 /\ pc' = "batch_exp"
            ELSE /\ prev_instance_data' = <<"None">>
                 /\ pc' = "io_error"
       ELSE /\ prev_instance_data' = <<"None">>
            /\ pc' = "batch_exp"
    /\ UNCHANGED <<buildVars, mipVars, solveVars, chkVars, optVars, amkVars, lexVars, circleVars, satVars,
                   driver, instances, res, started>>

\* 'if prev_instance_data': None and the empty dict are false
Truthy(prev) == prev[1] = "dict" /\ DOMAIN prev[2] # {}

\* a variant of skip_experiment: the first experiment is never skipped
skip_experiment_mut(d, prev, E) ==
    Truthy(prev) /\ Len(prev[2][E].sol) = 0 /\ E # Experiments(d)[1]

\* line 111: the test that skips the experiment E
skip_experiment(d, prev, E) == Truthy(prev) /\ Len(prev[2][E].sol) = 0

\* lines 111-170: the empty record stored, or the solver subprocess run; after
\* a return code other than 0 solve_sat_all.py stores the empty record itself
\* (lines 155-167, result.stderr is None as the output is not captured)
RunOrSkip(E, prev) ==
    /\ prev_instance_data' = prev
    /\ \E data \in {IF instance_id \in DOMAIN res THEN res[instance_id] ELSE EmptyDict} :
          IF skip_experiment(driver, prev, E)
          THEN /\ res' = Put(res, instance_id, Put(data, E, EmptyRecord))
               /\ started' = started
          ELSE /\ started' = started \cup {<<instance_id, E>>}
               /\ \E out \in SubprocessOutcomes :
                     res' = CASE out = "solved" -> Put(res, instance_id, Put(data, E, SolvedRecord))
                              [] out = "empty" -> Put(res, instance_id, Put(data, E, EmptyRecord))
                              [] out = "error" /\ driver = "sat" ->
                                    Put(res, instance_id, Put(data, E, EmptyRecord))
                              [] OTHER -> res
    /\ exp_idx' = exp_idx + 1
    /\ pc' = pc

\* lines 100-170: one experiment of the instance; the key that the previous
\* results lack is retried by solve_sat_all.py (lines 105-109) and raises
\* KeyError in solve_smt_all.py (line 124) and solve_cp_all.py (line 136)
BatchExperiment ==
    /\ pc = "batch_exp"
    /\ exp_idx < Len(Experiments(driver))
    /\ \E E \in {Experiments(driver)[exp_idx + 1]} :
          IF Truthy(prev_instance_data) /\ E \notin DOMAIN prev_instance_data[2]
          THEN IF driver = "sat"
               THEN RunOrSkip(E, <<"dict", Put(prev_instance_data[2], E, [sol |-> <<0>>])>>)
               ELSE /\ pc' = "key_error"
                    /\ UNCHANGED <<prev_instance_data, exp_idx, res, started>>
          ELSE RunOrSkip(E, prev_instance_data)
    /\ UNCHANGED <<buildVars, mipVars, solveVars, chkVars, optVars, amkVars, lexVars, circleVars, satVars,
                   driver, instances, instance_files, instance_id>>

\* line 100: the experiments of the instance are done
BatchInstanceDone ==
    /\ pc = "batch_exp"
    /\ exp_idx = Len(Experiments(driver))
    /\ pc' = "batch_loop"
    /\ UNCHANGED <<batchVars, buildVars, mipVars, solveVars, chkVars, optVars, amkVars, lexVars, circleVars, satVars>>

\* line 77: no instance is left
BatchDone ==
    /\ pc = "batch_loop"
    /\ instance_files = <<>>
    /\ pc' = "batch_done"
    /\ UNCHANGED <<batchVars, buildVars, mipVars, solveVars, chkVars, optVars, amkVars, lexVars, circleVars, satVars>>

NextBatch == BatchSort \/ BatchNextInstance \/ BatchExperiment \/ BatchInstanceDone \/ BatchDone

SpecBatch == InitBatch /\ [][NextBatch]_vars

\* the stored result of instance j has an empty 'sol' for experiment E
EmptyStored(j, E) ==
    /\ j \in DOMAIN res
    /\ E \in DOMAIN res[j]
    /\ Len(res[j][E].sol) = 0

\* the step that handles experiment E of the current instance
ExperimentStep(E) ==
    /\ pc = "batch_exp"
    /\ exp_idx < Len(Experiments(driver))
    /\ Experiments(driver)[exp_idx + 1] = E
    /\ (exp_idx' # exp_idx \/ pc' # pc)

\* the step stores the empty record for E and leaves every other record alone
StoresEmptyOnly(E) ==
    /\ DOMAIN res' = DOMAIN res \cup {instance_id}
    /\ \A j \in DOMAIN res \ {instance_id} : res'[j] = res[j]
    /\ E \in DOMAIN res'[instance_id]
    /\ res'[instance_id][E] = EmptyRecord
    /\ \A F \in ExperimentSet(driver) \ {E} :
          IF instance_id \in DOMAIN res /\ F \in DOMAIN res[instance_id]
          THEN F \in DOMAIN res'[instance_id] /\ res'[instance_id][F] = res[instance_id][F]
          ELSE F \notin DOMAIN res'[instance_id]

\* the sorted list of the instance files is in increasing order of the ids
IncreasingOrder ==
    \A x, y \in 1 .. Len(SortedFiles(instances)) :
        x < y => SortedFiles(instances)[x] < SortedFiles(instances)[y]

\* C30 as stated, for every instance id: when the stored result of instance
\* id-1 has an empty 'sol' for experiment E, the subprocess for E on instance
\* id is not started and the empty record is stored for E, the other records
\* unchanged; and, over ids processed in increasing order, once E has an empty
\* solution for an instance it is not run for a later instance.
C30_EmptyPredecessorSkips ==
    [][\A E \in ExperimentSet(driver) :
          /\ (ExperimentStep(E) /\ EmptyStored(instance_id - 1, E)) =>
                /\ <<instance_id, E>> \notin started'
                /\ StoresEmptyOnly(E)
          /\ (ExperimentStep(E) /\ IncreasingOrder
                /\ \E j \in DOMAIN res : j < instance_id /\ EmptyStored(j, E)) =>
                <<instance_id, E>> \notin started']_vars

\* C30, for the instances that have a predecessor in the drivers' sense
\* (id - 1 > 0, that is id >= 2): when the stored result of instance id-1 has an
\* empty 'sol' for experiment E, the subprocess for E on instance id is not
\* started and the empty record is stored for E, the other records unchanged;
\* and, over consecutive ids processed in increasing order, once E has an
\* empty solution for an instance j >= 1 it is not run for a later instance.
C30_EmptyPredecessorSkipsFromTwo ==
    [][\A E \in ExperimentSet(driver) :
          /\ (ExperimentStep(E) /\ instance_id - 1 > 0 /\ EmptyStored(instance_id - 1, E)) =>
                /\ <<instance_id, E>> \notin started'
                /\ StoresEmptyOnly(E)
          /\ (ExperimentStep(E) /\ IncreasingOrder
                /\ \E j \in DOMAIN res : j >= 1 /\ j < instance_id /\ EmptyStored(j, E)) =>
                <<instance_id, E>> \notin started']_vars

\* a run in which the first experiment found nothing on its first instance
\* and was skipped on the two instances after it, while the second experiment
\* ran on all three and its records were kept
C30_Witness ==
    /\ pc = "batch_done"
    /\ \E first \in instances :
          /\ first >= 1
          /\ instances = first .. (first + 2)
          /\ \A j \in instances :
                /\ j \in DOMAIN res
                /\ res[j][Experiments(driver)[1]] = EmptyRecord
                /\ res[j][Experiments(driver)[2]] = SolvedRecord
                /\ <<j, Experiments(driver)[2]>> \in started
          /\ <<first, Experiments(driver)[1]>> \in started
          /\ <<first + 1, Experiments(driver)[1]>> \notin started
          /\ <<first + 2, Experiments(driver)[1]>> \notin started

Init ==
    \/ InitAMK \/ InitLex \/ InitCircle \/ InitRR \/ InitHA \/ InitDecode \/ InitChecker
    \/ InitRange \/ InitScenario \/ InitOpt \/ InitSolve \/ InitMip
    \/ InitBuild \/ InitSearch \/ InitBounds \/ InitFull \/ InitBatch

Next ==
    \/ NextAMK \/ NextLex \/ NextCircle \/ NextRR \/ NextHA \/ NextDecode \/ NextPartial
    \/ NextChecker \/ NextRange \/ NextScenario
    \/ NextOpt \/ NextSolve \/ NextMip
    \/ NextBuild \/ NextSearch \/ NextBounds \/ NextHome \/ NextFull \/ NextBatch

Spec == Init /\ [][Next]_vars

=============================================================================
